---- MODULE Spec2Model ----
(***************************************************************************)
(* Model of the binlog event decoder (package binlog), of the byte cursor   *)
(* it reads from (package mysql, type Packet) and of the EventQueue.       *)
(*                                                                         *)
(* A payload is a sequence of bytes.  A Packet is a record                 *)
(*   data  : the backing array (its length is the Go slice's capacity),    *)
(*   len   : the Go slice's length, the logical end of the payload,        *)
(*   pos   : the read offset (0-based),                                    *)
(*   panic : TRUE once a run-time panic (index or slice bound out of       *)
(*           range, nil dereference) has been raised; every later          *)
(*           operation on a panicked packet is a no-op, so the flag        *)
(*           carries the panic to the end of decode.                       *)
(* Every cursor operation returns [p |-> packet after, v |-> value read].  *)
(***************************************************************************)
EXTENDS Integers, Sequences, FiniteSets, TLC

VARIABLES
    format,     \* EventDecoder.format: the current FormatDescriptionEvent or Nil
    tables,     \* EventDecoder.tables: table_id -> TableMapEvent
    status,     \* "ready", or why the decoding goroutine stopped
    last,       \* what the last decode call was given and what it returned
    seenFD,     \* history: the last FormatDescription event decode returned, or Nil
    ch,         \* EventQueue.ch: the events a receive from the value channel finds, oldest first
    errCh,      \* EventQueue.errCh: the errors a receive from the error channel finds
    qerr,       \* EventQueue.err: the latched error, 0 for nil
    pushed,     \* history: number of events sent to ch so far (event n is the n-th)
    sent,       \* history: number of errors sent to errCh so far (error n is the n-th)
    popped,     \* history: what each Pop call was given and returned, oldest first
    call        \* a call of a helper function: its arguments and, once made, its result;
                \* or the events of the decoder as objects at addresses

vars == <<format, tables, status, last, seenFD, ch, errCh, qerr, pushed, sent, popped, call>>
decVars == <<format, tables, status, last, seenFD>>
queueVars == <<ch, errCh, qerr, pushed, sent, popped>>

Nil == [kind |-> "nil"]

(***************************************************************************)
(* Program constants                                                       *)
(***************************************************************************)
eventHeaderSize == 19

QueryEventType == 2
RotateEventType == 4
FormatDescriptionEventType == 15
XidEventType == 16
TableMapEventType == 19
RowsQueryEventType == 29
WriteRowsEventType == 30
UpdateRowsEventType == 31
DeleteRowsEventType == 32
GtidEventType == 33

fieldTypeTiny == 1
fieldTypeShort == 2
fieldTypeLong == 3
fieldTypeFloat == 4
fieldTypeDouble == 5
fieldTypeInt24 == 9
fieldTypeVarChar == 15
fieldTypeBit == 16
fieldTypeTimestampV2 == 17
fieldTypeDateTimeV2 == 18
fieldTypeTimeV2 == 19
fieldTypeJSON == 245
fieldTypeNewDecimal == 246
fieldTypeEnum == 247
fieldTypeSet == 248
fieldTypeBLOB == 252
fieldTypeVarString == 253
fieldTypeString == 254
fieldTypeGeometry == 255

(***************************************************************************)
(* Byte-sequence helpers                                                   *)
(***************************************************************************)
\* s[from:to] of Go, offsets 0-based, to exclusive
Slice(s, from, to) == [i \in 1..(to - from) |-> s[from + i]]

RECURSIVE LittleEndian(_)
\* binary.LittleEndian.UintN of a byte sequence
LittleEndian(b) == IF b = <<>> THEN 0 ELSE b[1] + 256 * LittleEndian(Tail(b))

RECURSIVE BigEndian(_)
\* binary.BigEndian.UintN of a byte sequence
BigEndian(b) == IF b = <<>> THEN 0 ELSE BigEndian(SubSeq(b, 1, Len(b) - 1)) * 256 + b[Len(b)]

RECURSIVE BitOr(_, _)
\* a | b on non-negative integers
BitOr(a, b) ==
    IF a = 0 THEN b
    ELSE IF b = 0 THEN a
    ELSE (IF (a % 2 = 1) \/ (b % 2 = 1) THEN 1 ELSE 0) + 2 * BitOr(a \div 2, b \div 2)

\* F applied to the value of v: Go evaluates a statement's operand once
Then(v, F(_)) == CHOOSE y \in {F(w) : w \in {v}} : TRUE

RECURSIVE Zeros(_)
Zeros(n) == IF n <= 0 THEN <<>> ELSE <<0>> \o Zeros(n - 1)

(***************************************************************************)
(* mysql.Packet: the byte cursor                                           *)
(***************************************************************************)
NewPacket(data) == [data |-> data, len |-> Len(data), pos |-> 0, panic |-> FALSE]

newBinlogPacket(data) == NewPacket(data)

Panicked(p) == [p EXCEPT !.panic = TRUE]

PacketLen(p) == p.len

EOF(p) == p.pos = p.len

\* the unread part p.data[p.pos:]; evaluating it panics when pos > len
Rest(p) == Slice(p.data, p.pos, p.len)

SliceRight(p, length) ==
    IF p.panic THEN [p |-> p, v |-> <<>>]
    ELSE IF length > p.len THEN [p |-> p, v |-> <<>>]
    ELSE [p |-> [p EXCEPT !.len = p.len - length],
          v |-> Slice(p.data, p.len - length, p.len)]

Skip(p, step) == IF p.panic THEN p ELSE [p EXCEPT !.pos = p.pos + step]

Read(p, size) ==
    IF p.panic THEN [p |-> p, v |-> <<>>]
    ELSE IF size < 0
         THEN IF p.pos > p.len
              THEN [p |-> Panicked(p), v |-> <<>>]
              ELSE [p |-> [p EXCEPT !.pos = p.len], v |-> Rest(p)]
         ELSE IF p.pos + size > Len(p.data)
              THEN [p |-> Panicked(p), v |-> <<>>]
              ELSE [p |-> [p EXCEPT !.pos = p.pos + size],
                    v |-> Slice(p.data, p.pos, p.pos + size)]

ReadUintBySize(p, size) ==
    IF p.panic THEN [p |-> p, v |-> 0]
    ELSE IF size = 0 THEN [p |-> p, v |-> 0]
    ELSE IF size < 0 \/ size > 8 THEN [p |-> Panicked(p), v |-> 0]
    ELSE IF p.pos + size > p.len THEN [p |-> Panicked(p), v |-> 0]
    ELSE [p |-> [p EXCEPT !.pos = p.pos + size],
          v |-> LittleEndian(Slice(p.data, p.pos, p.pos + size))]

ReadUintBySizeBE(p, size) ==
    IF p.panic THEN [p |-> p, v |-> 0]
    ELSE IF size = 0 THEN [p |-> p, v |-> 0]
    ELSE IF size < 0 \/ size > 8 THEN [p |-> Panicked(p), v |-> 0]
    ELSE IF p.pos + size > p.len THEN [p |-> Panicked(p), v |-> 0]
    ELSE [p |-> [p EXCEPT !.pos = p.pos + size],
          v |-> BigEndian(Slice(p.data, p.pos, p.pos + size))]

\* number of bytes a length-encoded integer starting with byte b0 occupies
LengthEncodedSize(b0) ==
    IF b0 = 252 THEN 3 ELSE IF b0 = 253 THEN 4 ELSE IF b0 = 254 THEN 9 ELSE 1

\* readLengthEncodedInteger(b): [num, n, panic]
readLengthEncodedInteger(b) ==
    IF Len(b) = 0 THEN [num |-> 0, n |-> 1, panic |-> FALSE]
    ELSE IF b[1] = 251 THEN [num |-> 0, n |-> 1, panic |-> FALSE]
    ELSE IF b[1] < 251 THEN [num |-> b[1], n |-> 1, panic |-> FALSE]
    ELSE IF b[1] = 255 THEN [num |-> 255, n |-> 1, panic |-> FALSE]
    ELSE IF Len(b) < LengthEncodedSize(b[1])
         THEN [num |-> 0, n |-> 0, panic |-> TRUE]
         ELSE [num |-> LittleEndian(Slice(b, 1, LengthEncodedSize(b[1]))),
               n |-> LengthEncodedSize(b[1]), panic |-> FALSE]

\* readLengthEncodedString(b): [data, n, err, panic]
readLengthEncodedString(b) ==
    LET i == readLengthEncodedInteger(b) IN
    IF i.panic THEN [data |-> <<>>, n |-> 0, err |-> FALSE, panic |-> TRUE]
    ELSE IF i.num < 1
         THEN IF i.n > Len(b)
              THEN [data |-> <<>>, n |-> 0, err |-> FALSE, panic |-> TRUE]
              ELSE [data |-> <<>>, n |-> i.n, err |-> FALSE, panic |-> FALSE]
         ELSE IF Len(b) >= i.n + i.num
              THEN [data |-> Slice(b, i.n, i.n + i.num), n |-> i.n + i.num,
                    err |-> FALSE, panic |-> FALSE]
              ELSE [data |-> <<>>, n |-> i.n + i.num, err |-> TRUE, panic |-> FALSE]

ReadPackedInteger(p) ==
    IF p.panic THEN [p |-> p, v |-> 0]
    ELSE IF p.pos > p.len THEN [p |-> Panicked(p), v |-> 0]
    ELSE LET r == readLengthEncodedInteger(Rest(p)) IN
         IF r.panic THEN [p |-> Panicked(p), v |-> 0]
         ELSE [p |-> [p EXCEPT !.pos = p.pos + r.n], v |-> r.num]

ReadPackedString(p) ==
    IF p.panic THEN [p |-> p, v |-> <<>>, err |-> FALSE]
    ELSE IF p.pos > p.len THEN [p |-> Panicked(p), v |-> <<>>, err |-> FALSE]
    ELSE LET r == readLengthEncodedString(Rest(p)) IN
         IF r.panic THEN [p |-> Panicked(p), v |-> <<>>, err |-> FALSE]
         ELSE IF r.err THEN [p |-> p, v |-> <<>>, err |-> TRUE]
         ELSE [p |-> [p EXCEPT !.pos = p.pos + r.n], v |-> r.data, err |-> FALSE]

(***************************************************************************)
(* binlogPacket: fixed-width reads                                         *)
(***************************************************************************)
readByte(p) ==
    LET r == Read(p, 1) IN
    IF r.p.panic THEN [p |-> r.p, v |-> 0] ELSE [p |-> r.p, v |-> r.v[1]]

readUint16(p) == ReadUintBySize(p, 2)

readUint32(p) == ReadUintBySize(p, 4)

readUint64(p) == ReadUintBySize(p, 8)

(***************************************************************************)
(* util.go: server version parsing and comparison, bitmap test             *)
(***************************************************************************)
IsDigit(c) == c >= 48 /\ c <= 57

RECURSIVE Split(_, _)
\* strings.Split(s, sep) for a one-byte separator
Split(s, sep) ==
    IF \A i \in 1..Len(s) : s[i] # sep THEN <<s>>
    ELSE LET k == CHOOSE i \in 1..Len(s) : s[i] = sep /\ \A j \in 1..(i - 1) : s[j] # sep
         IN <<SubSeq(s, 1, k - 1)>> \o Split(SubSeq(s, k + 1, Len(s)), sep)

RECURSIVE DigitsValue(_)
DigitsValue(s) ==
    IF s = <<>> THEN 0 ELSE DigitsValue(SubSeq(s, 1, Len(s) - 1)) * 10 + (s[Len(s)] - 48)

\* strconv.Atoi with its error dropped: 0 unless s is [+-]?[0-9]+
Atoi(s) ==
    LET signed == s # <<>> /\ s[1] \in {43, 45}
        digits == IF signed THEN Tail(s) ELSE s
    IN IF digits = <<>> \/ \E i \in 1..Len(digits) : ~IsDigit(digits[i]) THEN 0
       ELSE IF signed /\ s[1] = 45 THEN 0 - DigitsValue(digits)
       ELSE DigitsValue(digits)

\* regexp `\d+` FindString: the leftmost, longest run of digits ("" when none)
FindDigits(s) ==
    IF \A i \in 1..Len(s) : ~IsDigit(s[i]) THEN <<>>
    ELSE LET a == CHOOSE i \in 1..Len(s) : IsDigit(s[i]) /\ \A j \in 1..(i - 1) : ~IsDigit(s[j])
             b == CHOOSE i \in a..Len(s) :
                      /\ \A j \in a..i : IsDigit(s[j])
                      /\ (i = Len(s) \/ ~IsDigit(s[i + 1]))
         IN SubSeq(s, a, b)

parseMysqlVersion(version) ==
    LET parts == Split(version, 46) IN
    IF Len(parts) < 3 THEN [x |-> 0, y |-> 0, z |-> 0]
    ELSE [x |-> Atoi(parts[1]), y |-> Atoi(parts[2]), z |-> Atoi(FindDigits(parts[3]))]

\* (v.x<<16 | v.y<<8 | v.z) >= (other.x<<16 | other.y<<8 | other.z)
greaterOrEqual(v, other) ==
    BitOr(BitOr(v.x * 65536, v.y * 256), v.z)
        >= BitOr(BitOr(other.x * 65536, other.y * 256), other.z)

\* parseMysqlVersion("5.6.1")
checksumEnabledMysqlVersion == parseMysqlVersion(<<53, 46, 54, 46, 49>>)

\* bitmap[i>>3] & (1 << (i & 7)) > 0; the index is in range for every caller's i
isBitSet(bitmap, i) == (bitmap[(i \div 8) + 1] \div (2 ^ (i % 8))) % 2 = 1

RECURSIVE TrimLeft(_, _)
TrimLeft(s, c) == IF s # <<>> /\ s[1] = c THEN TrimLeft(Tail(s), c) ELSE s

RECURSIVE TrimRight(_, _)
TrimRight(s, c) ==
    IF s # <<>> /\ s[Len(s)] = c THEN TrimRight(SubSeq(s, 1, Len(s) - 1), c) ELSE s

\* bytes.Trim(s, "\x00")
TrimNul(s) == TrimRight(TrimLeft(s, 0), 0)

(***************************************************************************)
(* event.go: the header and the payload parsers.  A parser returns         *)
(* [p |-> packet after, err |-> an error was returned, ev |-> the event].  *)
(***************************************************************************)
checksumEnabled(e) == e.checksumAlg = 1

\* EventHeader.Decode without the comparison of EventSize with the packet's length
EventHeaderDecode_noSizeCheck(fmt, p0) ==
    IF PacketLen(p0) < eventHeaderSize
    THEN [err |-> TRUE, p |-> p0, h |-> Nil, trimmed |-> FALSE]
    ELSE LET r1 == readUint32(p0)
             r2 == readByte(r1.p)
             r3 == readUint32(r2.p)
             r4 == readUint32(r3.p)
             r5 == readUint32(r4.p)
             r6 == readUint16(r5.p)
             h == [kind |-> "header", Timestamp |-> r1.v, Type |-> r2.v,
                   ServerID |-> r3.v, EventSize |-> r4.v, NextLogPos |-> r5.v,
                   Flags |-> r6.v]
         IN IF h.Type # FormatDescriptionEventType /\ fmt # Nil /\ checksumEnabled(fmt)
            THEN [err |-> FALSE, p |-> SliceRight(r6.p, 4).p, h |-> h, trimmed |-> TRUE]
            ELSE [err |-> FALSE, p |-> r6.p, h |-> h, trimmed |-> FALSE]

\* [err, p, h, trimmed]: trimmed is TRUE when SliceRight(4) was called
EventHeaderDecode(fmt, p0) ==
    IF PacketLen(p0) < eventHeaderSize
    THEN [err |-> TRUE, p |-> p0, h |-> Nil, trimmed |-> FALSE]
    ELSE LET r1 == readUint32(p0)
             r2 == readByte(r1.p)
             r3 == readUint32(r2.p)
             r4 == readUint32(r3.p)
             r5 == readUint32(r4.p)
             r6 == readUint16(r5.p)
             h == [kind |-> "header", Timestamp |-> r1.v, Type |-> r2.v,
                   ServerID |-> r3.v, EventSize |-> r4.v, NextLogPos |-> r5.v,
                   Flags |-> r6.v]
         IN IF PacketLen(r6.p) # h.EventSize
            THEN [err |-> TRUE, p |-> r6.p, h |-> h, trimmed |-> FALSE]
            ELSE IF h.Type # FormatDescriptionEventType /\ fmt # Nil /\ checksumEnabled(fmt)
                 THEN [err |-> FALSE, p |-> SliceRight(r6.p, 4).p, h |-> h, trimmed |-> TRUE]
                 ELSE [err |-> FALSE, p |-> r6.p, h |-> h, trimmed |-> FALSE]

UnsupportedEventDecode(h, p0) ==
    LET r1 == Read(p0, -1)
    IN [p |-> r1.p, err |-> FALSE,
        ev |-> [kind |-> "Unsupported", header |-> h, data |-> r1.v]]

RotateEventDecode(h, p0) ==
    LET r1 == readUint64(p0)
        r2 == Read(r1.p, -1)
    IN [p |-> r2.p, err |-> FALSE,
        ev |-> [kind |-> "Rotate", header |-> h, Position |-> r1.v, NextLogName |-> r2.v]]

FormatDescriptionEventDecode(h, p0) ==
    LET r1 == readUint16(p0)
        r2 == Read(r1.p, 50)
        ServerVersion == TrimNul(r2.v)
        p3 == Skip(r2.p, 4)
        r4 == readByte(p3)
        newer == greaterOrEqual(parseMysqlVersion(ServerVersion), checksumEnabledMysqlVersion)
        r5 == IF newer THEN SliceRight(r4.p, 5) ELSE [p |-> r4.p, v |-> <<>>]
        \* checksumPart[0] panics on an empty slice
        p5 == IF newer /\ ~r5.p.panic /\ r5.v = <<>> THEN Panicked(r5.p) ELSE r5.p
        alg == IF newer /\ r5.v # <<>> THEN r5.v[1] ELSE 0
        r6 == Read(p5, -1)
    IN [p |-> r6.p, err |-> FALSE,
        ev |-> [kind |-> "FormatDescription", header |-> h, BinlogVersion |-> r1.v,
                ServerVersion |-> ServerVersion, EventHeaderLength |-> r4.v,
                EventPostHeaderLengths |-> r6.v, checksumAlg |-> alg]]

QueryEventDecode(h, p0) ==
    LET r1 == readUint32(p0)
        r2 == readUint32(r1.p)
        r3 == readByte(r2.p)
        r4 == readUint16(r3.p)
        r5 == readUint16(r4.p)
        r6 == Read(r5.p, r5.v)
        r7 == Read(r6.p, r3.v)
        p8 == Skip(r7.p, 1)
        r9 == Read(p8, -1)
    IN [p |-> r9.p, err |-> FALSE,
        ev |-> [kind |-> "Query", header |-> h, ThreadID |-> r1.v, ExecutionTime |-> r2.v,
                ErrorCode |-> r4.v, StatusVars |-> r6.v, Database |-> r7.v, Query |-> r9.v]]

XIDEventDecode(h, p0) ==
    LET r1 == readUint64(p0)
    IN [p |-> r1.p, err |-> FALSE,
        ev |-> [kind |-> "XID", header |-> h, TransactionID |-> r1.v]]

GtidEventDecode(h, p0) ==
    LET r1 == readByte(p0)
        r2 == Read(r1.p, 16)
        r3 == readUint64(r2.p)
    IN [p |-> r3.p, err |-> FALSE,
        ev |-> [kind |-> "Gtid", header |-> h, CommitFlag |-> r1.v, sid |-> r2.v, gno |-> r3.v]]

RowsQueryEventDecode(h, p0) ==
    LET p1 == Skip(p0, 1)
        r2 == Read(p1, -1)
    IN [p |-> r2.p, err |-> FALSE,
        ev |-> [kind |-> "RowsQuery", header |-> h, Query |-> r2.v]]

(***************************************************************************)
(* binlogPacket: table-map metadata and column values                      *)
(***************************************************************************)
RECURSIVE columnMetaLoop(_, _, _, _, _)
\* the loop of readTableColumnMeta: [meta, panic]
columnMetaLoop(columnTypes, data, i, pos, meta) ==
    IF i > Len(columnTypes) THEN [meta |-> meta, panic |-> FALSE]
    ELSE LET t == columnTypes[i] IN
         IF t \in {fieldTypeFloat, fieldTypeDouble, fieldTypeBLOB, fieldTypeJSON,
                   fieldTypeGeometry, fieldTypeTimestampV2, fieldTypeDateTimeV2,
                   fieldTypeTimeV2}
         THEN IF pos >= Len(data) THEN [meta |-> meta, panic |-> TRUE]
              ELSE columnMetaLoop(columnTypes, data, i + 1, pos + 1,
                                  Append(meta, data[pos + 1]))
         ELSE IF t \in {fieldTypeBit, fieldTypeVarChar, fieldTypeVarString}
         THEN IF pos + 2 > Len(data) THEN [meta |-> meta, panic |-> TRUE]
              ELSE columnMetaLoop(columnTypes, data, i + 1, pos + 2,
                                  Append(meta, LittleEndian(Slice(data, pos, pos + 2))))
         ELSE IF t \in {fieldTypeString, fieldTypeNewDecimal}
         THEN IF pos + 2 > Len(data) THEN [meta |-> meta, panic |-> TRUE]
              ELSE columnMetaLoop(columnTypes, data, i + 1, pos + 2,
                                  Append(meta, BigEndian(Slice(data, pos, pos + 2))))
         ELSE columnMetaLoop(columnTypes, data, i + 1, pos, Append(meta, 0))

\* [p, v, err]
readTableColumnMeta(p, columnTypes) ==
    LET r == ReadPackedString(p) IN
    IF r.err THEN [p |-> r.p, v |-> <<>>, err |-> TRUE]
    ELSE IF r.p.panic THEN [p |-> r.p, v |-> <<>>, err |-> FALSE]
    ELSE LET m == columnMetaLoop(columnTypes, r.v, 1, 0, <<>>) IN
         [p |-> IF m.panic THEN Panicked(r.p) ELSE r.p, v |-> m.meta, err |-> FALSE]

IntValue(n) == [kind |-> "int", v |-> n]

BytesValue(b) == [kind |-> "bytes", v |-> b]

\* the value of an interface{} slot that was never assigned
NilValue == Nil

\* int64(intN(u)) for an N-bit unsigned u
SignExtend(u, bits) == IF u >= 2 ^ (bits - 1) THEN u - 2 ^ bits ELSE u

\* An integer too wide for one number of the model is kept as two limbs,
\* hi * 2^24 + lo with 0 <= lo < 2^24.
Two24 == 2 ^ 24

Wide(hi, lo) == [hi |-> hi, lo |-> lo]

\* a number n >= 0 in limbs
ToWide(n) == Wide(n \div Two24, n % Two24)

\* ^u for a uint32 u (hi has 8 bits)
Not32(u) == Wide(255 - u.hi, Two24 - 1 - u.lo)

\* u + 1 for a uint32 u
Inc32(u) == IF u.lo + 1 < Two24 THEN Wide(u.hi, u.lo + 1) ELSE Wide((u.hi + 1) % 256, 0)

\* int64(u) for a uint32 u, as a value of a row: a number when it fits in 31 bits
Int64OfUint32(u) ==
    IF u.hi < 128 THEN IntValue(u.hi * Two24 + u.lo)
    ELSE [kind |-> "int", hi |-> u.hi, lo |-> u.lo]

\* the signed branch of case fieldTypeInt24, for the value u32 of readUint24
signedInt24(u32) ==
    Int64OfUint32(IF u32 >= 8388608 THEN Inc32(Not32(ToWide(u32))) ELSE ToWide(u32))

\* ReadUintBySizeBE(size) for 3 <= size <= 6, the value in limbs
ReadWideBE(p, size) ==
    IF p.panic THEN [p |-> p, v |-> Wide(0, 0)]
    ELSE IF p.pos + size > p.len THEN [p |-> Panicked(p), v |-> Wide(0, 0)]
    ELSE [p |-> [p EXCEPT !.pos = p.pos + size],
          v |-> Wide(BigEndian(Slice(p.data, p.pos, p.pos + size - 3)),
                     BigEndian(Slice(p.data, p.pos + size - 3, p.pos + size)))]

\* w >> shift & (1<<bits - 1), for shift < 24
Bits(w, shift, bits) ==
    IF shift + bits <= 24 THEN (w.lo \div (2 ^ shift)) % (2 ^ bits)
    ELSE (w.hi % (2 ^ (shift + bits - 24))) * (2 ^ (24 - shift)) + (w.lo \div (2 ^ shift))

\* -w
NegWide(w) == IF w.lo = 0 THEN Wide(0 - w.hi, 0) ELSE Wide(0 - w.hi - 1, Two24 - w.lo)

RECURSIVE Decimal(_)
\* the decimal digits of n >= 0, as characters
Decimal(n) == IF n < 10 THEN <<48 + n>> ELSE Decimal(n \div 10) \o <<48 + (n % 10)>>

RECURSIVE Pad(_)
\* n characters '0'
Pad(n) == IF n <= 0 THEN <<>> ELSE <<48>> \o Pad(n - 1)

\* fmt.Sprintf("%0<width>d", n) for n >= 0
Sprint0d(width, n) == Pad(width - Len(Decimal(n))) \o Decimal(n)

\* v[0 : len(v)-6+dec]: a slice bound beyond len(v) panics
cutFraction(p, v, dec) ==
    IF Len(v) - 6 + dec > Len(v) \/ Len(v) - 6 + dec < 0
    THEN [p |-> Panicked(p), v |-> <<>>]
    ELSE [p |-> p, v |-> SubSeq(v, 1, Len(v) - 6 + dec)]

\* readMicroSeconds without the two's complement of a negative value's fraction
readMicroSeconds_unsigned(p, dec, negative) ==
    LET msecLen == (dec + 1) \div 2
        r == ReadUintBySizeBE(p, msecLen)
        scale == IF msecLen <= 3 THEN 100 ^ (3 - msecLen) ELSE 0
    IN IF r.v = 0 \/ r.p.panic THEN [p |-> r.p, v |-> 0]
       ELSE [p |-> r.p, v |-> r.v * scale]

\* [p, v]: the fractional part, in microseconds
readMicroSeconds(p, dec, negative) ==
    LET msecLen == (dec + 1) \div 2
        r == ReadUintBySizeBE(p, msecLen)
        \* int64(math.Pow(100, float64(3-msecLen))) is 0 once msecLen > 3
        scale == IF msecLen <= 3 THEN 100 ^ (3 - msecLen) ELSE 0
    IN IF r.v = 0 \/ r.p.panic THEN [p |-> r.p, v |-> 0]
       ELSE [p |-> r.p, v |-> (IF negative THEN r.v - 256 ^ msecLen ELSE r.v) * scale]

\* [p, v]: "YYYY-MM-DD HH:MM:SS.ffffff" cut to dec decimals
readDateTimeV2(p, meta) ==
    LET r1 == ReadWideBE(p, 5)
        r2 == readMicroSeconds(r1.p, meta, FALSE)
        yearmonth == Bits(r1.v, 22, 17)
        v == Sprint0d(4, yearmonth \div 13) \o <<45>> \o Sprint0d(2, yearmonth % 13) \o <<45>>
                 \o Sprint0d(2, Bits(r1.v, 17, 5)) \o <<32>> \o Sprint0d(2, Bits(r1.v, 12, 5))
                 \o <<58>> \o Sprint0d(2, Bits(r1.v, 6, 6)) \o <<58>>
                 \o Sprint0d(2, Bits(r1.v, 0, 6)) \o <<46>> \o Sprint0d(6, r2.v)
    IN IF r2.p.panic THEN [p |-> r2.p, v |-> <<>>] ELSE cutFraction(r2.p, v, meta)

\* [p, v]: "[-]HH:MM:SS.ffffff" cut to dec decimals
readTimeV2(p, meta) ==
    LET r1 == ReadUintBySizeBE(p, 3)
        time == r1.v - 8388608
        negative == time < 0
        r2 == readMicroSeconds(r1.p, meta, negative)
        \* time<<24 + msec after time++, negated: msec = time % (1<<24), time >>= 24
        shifted == Wide((IF r2.v # 0 THEN time + 1 ELSE time) + (r2.v \div Two24),
                        r2.v % Two24)
        t == IF negative THEN NegWide(shifted) ELSE Wide(time, r2.v)
        v == (IF negative THEN <<45>> ELSE <<>>)
                 \o Sprint0d(2, (t.hi \div 4096) % 1024) \o <<58>>
                 \o Sprint0d(2, (t.hi \div 64) % 64) \o <<58>>
                 \o Sprint0d(2, t.hi % 64) \o <<46>> \o Sprint0d(6, t.lo)
    IN IF r2.p.panic THEN [p |-> r2.p, v |-> <<>>] ELSE cutFraction(r2.p, v, meta)

\* the fieldTypeString prologue: the effective column type and pack length
stringRealType(columnType, meta) ==
    IF columnType # fieldTypeString THEN [t |-> columnType, length |-> 0]
    ELSE IF meta >= 256
         THEN LET realType == meta \div 256
                  bits == ((realType \div 16) % 4) * 16
              IN IF bits # 48
                 THEN [t |-> realType + (48 - bits),
                       length |-> (meta % 256) + (48 - bits) * 16]
                 ELSE [t |-> realType, length |-> meta % 256]
         ELSE [t |-> columnType, length |-> meta]

\* [p, v, err]; unsigned is false for every caller
readTableColumnValue(p, columnType, meta) ==
    LET s == stringRealType(columnType, meta)
        t == s.t
        ret(r, v) == [p |-> r.p, v |-> IF r.p.panic THEN NilValue ELSE v, err |-> FALSE]
    IN IF t = fieldTypeTiny
       THEN LET r == readByte(p) IN ret(r, IntValue(SignExtend(r.v, 8)))
       ELSE IF t = fieldTypeShort
       THEN LET r == readUint16(p) IN ret(r, IntValue(SignExtend(r.v, 16)))
       ELSE IF t = fieldTypeInt24
       THEN LET r == ReadUintBySize(p, 3) IN ret(r, signedInt24(r.v))
       ELSE IF t = fieldTypeLong
       \* int64(int32(u)) is u for the values below 2^31 that readUint32 gives here
       THEN LET r == readUint32(p) IN ret(r, IntValue(r.v))
       ELSE IF t \in {fieldTypeVarChar, fieldTypeVarString, fieldTypeString}
       THEN LET length == IF t = fieldTypeString THEN s.length ELSE meta
                r1 == IF length < 256 THEN readByte(p) ELSE readUint16(p)
                r2 == Read(r1.p, r1.v)
            IN ret(r2, BytesValue(r2.v))
       ELSE IF t = fieldTypeEnum
       THEN IF s.length = 1 \/ s.length = 2
            THEN LET r == ReadUintBySize(p, s.length) IN ret(r, IntValue(r.v))
            ELSE [p |-> p, v |-> NilValue, err |-> TRUE]
       ELSE IF t = fieldTypeSet
       THEN IF s.length >= 0 /\ s.length <= 8
            THEN LET r == ReadUintBySizeBE(p, s.length) IN ret(r, IntValue(r.v))
            ELSE [p |-> p, v |-> NilValue, err |-> TRUE]
       ELSE IF t = fieldTypeBit
       THEN LET nbits == ((meta \div 256) * 8 + (meta % 256)) % 65536
                length == (nbits + 7) \div 8
            IN IF length >= 0 /\ length <= 8
               THEN LET r == ReadUintBySizeBE(p, length) IN ret(r, IntValue(r.v))
               ELSE [p |-> p, v |-> NilValue, err |-> TRUE]
       ELSE IF t = fieldTypeTimeV2
       THEN LET r == readTimeV2(p, meta) IN ret(r, BytesValue(r.v))
       ELSE IF t = fieldTypeDateTimeV2
       THEN LET r == readDateTimeV2(p, meta) IN ret(r, BytesValue(r.v))
       ELSE IF t \in {fieldTypeBLOB, fieldTypeGeometry}
       THEN LET r1 == ReadUintBySize(p, meta)
                r2 == Read(r1.p, r1.v)
            IN ret(r2, BytesValue(r2.v))
       ELSE [p |-> p, v |-> NilValue, err |-> FALSE]

(***************************************************************************)
(* row_event.go                                                            *)
(***************************************************************************)
\* append(packet.Read(6), 0, 0) writes the two zero bytes into the backing
\* array of the packet when the slice returned by Read has room for them
appendZeros(p0, p1) ==
    IF ~p1.panic /\ Len(p0.data) - p0.pos >= 8
    THEN [p1 EXCEPT !.data = [i \in DOMAIN p0.data |->
                                 IF i \in {p0.pos + 7, p0.pos + 8} THEN 0 ELSE p0.data[i]]]
    ELSE p1

TableMapEventDecode(h, p0) ==
    Then(Read(p0, 6), LAMBDA r1 :
    Then(readUint16(appendZeros(p0, r1.p)), LAMBDA r2 :
    Then(readByte(r2.p), LAMBDA r3 :
    Then(Read(r3.p, r3.v), LAMBDA r4 :
    Then(readByte(Skip(r4.p, 1)), LAMBDA r6 :
    Then(Read(r6.p, r6.v), LAMBDA r7 :
    Then(ReadPackedInteger(Skip(r7.p, 1)), LAMBDA r9 :
    Then(Read(r9.p, r9.v), LAMBDA r10 :
    Then(readTableColumnMeta(r10.p, r10.v), LAMBDA r11 :
    Then(Read(r11.p, -1), LAMBDA r12 :
    LET ev == [kind |-> "TableMap", header |-> h, TableID |-> LittleEndian(r1.v),
               Flags |-> r2.v, Database |-> r4.v, TableName |-> r7.v,
               ColumnCount |-> r9.v, ColumnTypes |-> r10.v, ColumnMeta |-> r11.v,
               ColumnNullability |-> r12.v]
    IN IF r11.err THEN [p |-> r11.p, err |-> TRUE, ev |-> ev]
       ELSE IF ~r12.p.panic /\ Len(r12.v) # (r9.v + 7) \div 8
       THEN [p |-> r12.p, err |-> TRUE, ev |-> ev]
       ELSE [p |-> r12.p, err |-> FALSE, ev |-> ev]))))))))))

RECURSIVE includedCount(_, _, _)
\* the number of i < n whose bit is set in bitmap
includedCount(bitmap, n, i) ==
    IF i >= n THEN 0
    ELSE (IF isBitSet(bitmap, i) THEN 1 ELSE 0) + includedCount(bitmap, n, i + 1)

RECURSIVE decodeColumns_columnOrder(_, _, _, _, _, _, _)
\* a second loop that looks up the NULL bit of a column at the column's number
decodeColumns_columnOrder(table, columnCount, includedColumns, nullColumns, i, skipped, st) ==
    IF i >= columnCount \/ st.p.panic \/ st.err THEN st
    ELSE IF ~isBitSet(includedColumns, i)
    THEN decodeColumns_columnOrder(table, columnCount, includedColumns, nullColumns, i + 1,
                                   skipped + 1, st)
    ELSE IF i < 8 * Len(nullColumns) /\ isBitSet(nullColumns, i)
    THEN decodeColumns_columnOrder(table, columnCount, includedColumns, nullColumns, i + 1,
                                   skipped, st)
    ELSE IF table = Nil \/ i >= Len(table.ColumnTypes) \/ i >= Len(table.ColumnMeta)
    THEN [st EXCEPT !.p = Panicked(st.p)]
    ELSE Then(readTableColumnValue(st.p, table.ColumnTypes[i + 1], table.ColumnMeta[i + 1]),
              LAMBDA r :
         Then([p |-> r.p, row |-> [st.row EXCEPT ![i - skipped + 1] = r.v], err |-> r.err],
              LAMBDA st1 :
         decodeColumns_columnOrder(table, columnCount, includedColumns, nullColumns, i + 1,
                                   skipped, st1)))

RECURSIVE decodeColumns(_, _, _, _, _, _, _)
\* the second loop of decodeOneRow, from column i on: st = [p, row, err]
decodeColumns(table, columnCount, includedColumns, nullColumns, i, skipped, st) ==
    IF i >= columnCount \/ st.p.panic \/ st.err THEN st
    ELSE IF ~isBitSet(includedColumns, i)
    THEN decodeColumns(table, columnCount, includedColumns, nullColumns, i + 1, skipped + 1, st)
    ELSE IF isBitSet(nullColumns, i - skipped)
    THEN decodeColumns(table, columnCount, includedColumns, nullColumns, i + 1, skipped, st)
    ELSE IF table = Nil \/ i >= Len(table.ColumnTypes) \/ i >= Len(table.ColumnMeta)
    THEN [st EXCEPT !.p = Panicked(st.p)]
    ELSE Then(readTableColumnValue(st.p, table.ColumnTypes[i + 1], table.ColumnMeta[i + 1]),
              LAMBDA r :
         Then([p |-> r.p, row |-> [st.row EXCEPT ![i - skipped + 1] = r.v], err |-> r.err],
              LAMBDA st1 :
         decodeColumns(table, columnCount, includedColumns, nullColumns, i + 1, skipped, st1)))

\* a decodeOneRow that makes the row as wide as the table
decodeOneRow_allColumns(table, columnCount, includedColumns, p0) ==
    Then(includedCount(includedColumns, columnCount, 0), LAMBDA n :
    Then(Read(p0, (n + 7) \div 8), LAMBDA r1 :
    IF r1.p.panic THEN [p |-> r1.p, row |-> <<>>, err |-> FALSE, nulls |-> r1.v]
    ELSE Then(decodeColumns(table, columnCount, includedColumns, r1.v, 0, 0,
                            [p |-> r1.p, row |-> [k \in 1..columnCount |-> NilValue],
                             err |-> FALSE]),
              LAMBDA st : [p |-> st.p, row |-> st.row, err |-> st.err, nulls |-> r1.v])))

\* [p, row, err, nulls]: the row is appended to e.Rows by the caller when ~err
decodeOneRow(table, columnCount, includedColumns, p0) ==
    Then(includedCount(includedColumns, columnCount, 0), LAMBDA n :
    Then(Read(p0, (n + 7) \div 8), LAMBDA r1 :
    IF r1.p.panic THEN [p |-> r1.p, row |-> <<>>, err |-> FALSE, nulls |-> r1.v]
    ELSE Then(decodeColumns(table, columnCount, includedColumns, r1.v, 0, 0,
                            [p |-> r1.p, row |-> [k \in 1..n |-> NilValue], err |-> FALSE]),
              LAMBDA st : [p |-> st.p, row |-> st.row, err |-> st.err, nulls |-> r1.v])))

\* what a call of decodeOneRow used: its bitmap, the null bitmap it read, and the
\* offset in the payload at which it began to read
Image(includedColumns, p0, a) ==
    [bitmap |-> includedColumns, nulls |-> a.nulls, start |-> p0.pos]

\* One iteration of for !packet.EOF() { ... }: a row, and for an update a second one
\* keyed by updatedColumns.  [p, rows, images, failed]; images[i] is the Image of
\* rows[i], failed holds the Image of each call that returned an error (neither is
\* a field of RowsEvent: kept for the properties of rows)
rowsIteration(type, table, columnCount, columns, updatedColumns, st) ==
    Then(decodeOneRow(table, columnCount, columns, st.p), LAMBDA a :
    Then(IF a.p.panic THEN st
         ELSE IF a.err THEN [st EXCEPT !.failed = Append(@, Image(columns, st.p, a))]
         ELSE [st EXCEPT !.rows = Append(@, a.row), !.images = Append(@, Image(columns, st.p, a))],
         LAMBDA stA :
    IF type # UpdateRowsEventType \/ a.p.panic THEN [stA EXCEPT !.p = a.p]
    ELSE Then(decodeOneRow(table, columnCount, updatedColumns, a.p), LAMBDA b :
         IF b.p.panic THEN [stA EXCEPT !.p = b.p]
         ELSE IF b.err
         THEN [stA EXCEPT !.p = b.p, !.failed = Append(@, Image(updatedColumns, a.p, b))]
         ELSE [stA EXCEPT !.p = b.p, !.rows = Append(@, b.row),
                          !.images = Append(@, Image(updatedColumns, a.p, b))])))

RECURSIVE rowsLoop(_, _, _, _, _, _)
\* for !packet.EOF() { ... }: [p, rows, images, failed, diverges].  An iteration that leaves the
\* packet as it found it, with bytes still unread, repeats forever.
rowsLoop(type, table, columnCount, columns, updatedColumns, st) ==
    IF st.p.panic \/ EOF(st.p)
    THEN [p |-> st.p, rows |-> st.rows, images |-> st.images, failed |-> st.failed,
          diverges |-> FALSE]
    ELSE Then(rowsIteration(type, table, columnCount, columns, updatedColumns, st),
              LAMBDA s : IF ~s.p.panic /\ s.p = st.p
                         THEN [p |-> s.p, rows |-> s.rows, images |-> s.images,
                               failed |-> s.failed, diverges |-> TRUE]
                         ELSE rowsLoop(type, table, columnCount, columns, updatedColumns, s))

\* [p, err, ev, diverges, images, failed]
RowsEventDecode(tbls, h, p0) ==
    Then(ReadUintBySize(p0, 6), LAMBDA r1 :
    Then(IF r1.v \in DOMAIN tbls THEN tbls[r1.v] ELSE Nil, LAMBDA table :
    Then(readUint16(r1.p), LAMBDA r2 :
    Then(readUint16(r2.p), LAMBDA r3 :
    Then(Read(r3.p, r3.v - 2), LAMBDA r4 :
    Then(ReadPackedInteger(r4.p), LAMBDA r5 :
    Then(Read(r5.p, (r5.v + 7) \div 8), LAMBDA r6 :
    Then(IF h.Type = UpdateRowsEventType
         THEN Read(r6.p, (r5.v + 7) \div 8)
         ELSE [p |-> r6.p, v |-> <<>>], LAMBDA r7 :
    Then(rowsLoop(h.Type, table, r5.v, r6.v, r7.v,
                  [p |-> r7.p, rows |-> <<>>, images |-> <<>>, failed |-> <<>>]), LAMBDA l :
    [p |-> l.p, err |-> FALSE, diverges |-> l.diverges, images |-> l.images,
     failed |-> l.failed,
     ev |-> [kind |-> "Rows", header |-> h, TableID |-> r1.v, Table |-> table,
             Flags |-> r2.v, ExtraData |-> r4.v, ColumnCount |-> r5.v,
             Columns |-> r6.v, UpdatedColumns |-> r7.v, Rows |-> l.rows]])))))))))

\* a postDecode that keeps the entry a table id already has
TableMapEventPostDecode_keepFirst(e, tbls) ==
    [id \in (DOMAIN tbls) \cup {e.TableID} |-> IF id \in DOMAIN tbls THEN tbls[id] ELSE e]

\* TableMapEvent.postDecode: dec.tables[e.TableID] = e
TableMapEventPostDecode(e, tbls) ==
    [id \in (DOMAIN tbls) \cup {e.TableID} |-> IF id = e.TableID THEN e ELSE tbls[id]]

(***************************************************************************)
(* decoder.go                                                              *)
(***************************************************************************)
\* the switch of decode without the case of GtidEventType
parse_noGtid(tbls, h, p) ==
    IF h.Type = FormatDescriptionEventType THEN FormatDescriptionEventDecode(h, p)
    ELSE IF h.Type = RotateEventType THEN RotateEventDecode(h, p)
    ELSE IF h.Type = QueryEventType THEN QueryEventDecode(h, p)
    ELSE IF h.Type = XidEventType THEN XIDEventDecode(h, p)
    ELSE IF h.Type = RowsQueryEventType THEN RowsQueryEventDecode(h, p)
    ELSE IF h.Type = TableMapEventType THEN TableMapEventDecode(h, p)
    ELSE IF h.Type \in {WriteRowsEventType, UpdateRowsEventType, DeleteRowsEventType}
    THEN RowsEventDecode(tbls, h, p)
    ELSE UnsupportedEventDecode(h, p)

\* the switch of decode: the payload parser of an event type
parse(tbls, h, p) ==
    IF h.Type = FormatDescriptionEventType THEN FormatDescriptionEventDecode(h, p)
    ELSE IF h.Type = RotateEventType THEN RotateEventDecode(h, p)
    ELSE IF h.Type = QueryEventType THEN QueryEventDecode(h, p)
    ELSE IF h.Type = XidEventType THEN XIDEventDecode(h, p)
    ELSE IF h.Type = RowsQueryEventType THEN RowsQueryEventDecode(h, p)
    ELSE IF h.Type = GtidEventType THEN GtidEventDecode(h, p)
    ELSE IF h.Type = TableMapEventType THEN TableMapEventDecode(h, p)
    ELSE IF h.Type \in {WriteRowsEventType, UpdateRowsEventType, DeleteRowsEventType}
    THEN RowsEventDecode(tbls, h, p)
    ELSE UnsupportedEventDecode(h, p)

\* a postDecode that also forgets a table once rows of it were decoded
postDecode_forgetTable(fmt, tbls, ev) ==
    IF ev.kind = "TableMap"
    THEN [format |-> fmt, tables |-> TableMapEventPostDecode(ev, tbls)]
    ELSE IF ev.kind = "Rows"
    THEN [format |-> fmt, tables |-> [id \in (DOMAIN tbls) \ {ev.TableID} |-> tbls[id]]]
    ELSE [format |-> fmt, tables |-> tbls]

\* ev.(postDecoder): only *TableMapEvent has a postDecode method
postDecode(fmt, tbls, ev) ==
    IF ev.kind = "TableMap"
    THEN [format |-> fmt, tables |-> TableMapEventPostDecode(ev, tbls)]
    ELSE [format |-> fmt, tables |-> tbls]

\* a decode that runs postDecode before it looks at the error of Decode
decode_postDecodeFirst(fmt, tbls, data) ==
    Then(EventHeaderDecode(fmt, newBinlogPacket(data)), LAMBDA hd :
    LET base == [outcome |-> "error", ev |-> Nil, format |-> fmt, tables |-> tbls,
                 parsed |-> FALSE, trimmed |-> FALSE, end |-> hd.p.len, after |-> data,
                 images |-> <<>>, failed |-> <<>>, pos |-> hd.p.pos, len |-> hd.p.len]
    IN IF hd.err THEN base
       ELSE Then(parse(tbls, hd.h, hd.p), LAMBDA r :
            Then(postDecode(fmt, tbls, r.ev), LAMBDA pd :
            LET ran == [base EXCEPT !.parsed = TRUE, !.trimmed = hd.trimmed,
                                    !.after = r.p.data, !.pos = r.p.pos, !.len = r.p.len]
            IN IF r.p.panic THEN [ran EXCEPT !.outcome = "panic"]
               ELSE IF "diverges" \in DOMAIN r /\ r.diverges
               THEN [ran EXCEPT !.outcome = "diverges"]
               ELSE IF r.err THEN [ran EXCEPT !.format = pd.format, !.tables = pd.tables]
               ELSE [ran EXCEPT !.outcome = "event", !.ev = r.ev,
                                !.images = IF "images" \in DOMAIN r THEN r.images ELSE <<>>,
                                !.failed = IF "failed" \in DOMAIN r THEN r.failed ELSE <<>>,
                                !.format = pd.format, !.tables = pd.tables])))

\* One call dec.decode(data).  outcome is "event" (ev, nil), "error" (nil, err),
\* "panic" (a run-time panic unwinds decode) or "diverges" (decode never returns).
\* parsed: a payload parser ran; end: the logical end of the packet handed to it;
\* trimmed: SliceRight(4) was applied; after: the bytes of the payload afterwards;
\* images: for a rows event, the Image of each of its rows; failed: the Image of
\* each row image that decodeOneRow gave up with an error; pos, len: the read
\* offset and the logical end of the packet when the call ended.
decode(fmt, tbls, data) ==
    Then(EventHeaderDecode(fmt, newBinlogPacket(data)), LAMBDA hd :
    LET base == [outcome |-> "error", ev |-> Nil, format |-> fmt, tables |-> tbls,
                 parsed |-> FALSE, trimmed |-> FALSE, end |-> hd.p.len, after |-> data,
                 images |-> <<>>, failed |-> <<>>, pos |-> hd.p.pos, len |-> hd.p.len]
    IN IF hd.err THEN base
       ELSE Then(parse(tbls, hd.h, hd.p), LAMBDA r :
            LET ran == [base EXCEPT !.parsed = TRUE, !.trimmed = hd.trimmed,
                                    !.after = r.p.data, !.pos = r.p.pos, !.len = r.p.len]
            IN IF r.p.panic THEN [ran EXCEPT !.outcome = "panic"]
               ELSE IF "diverges" \in DOMAIN r /\ r.diverges
               THEN [ran EXCEPT !.outcome = "diverges"]
               ELSE IF r.err THEN ran
               ELSE Then(postDecode(fmt, tbls, r.ev), LAMBDA pd :
                    [ran EXCEPT !.outcome = "event", !.ev = r.ev,
                                !.images = IF "images" \in DOMAIN r THEN r.images ELSE <<>>,
                                !.failed = IF "failed" \in DOMAIN r THEN r.failed ELSE <<>>,
                                !.format = pd.format, !.tables = pd.tables])))

(***************************************************************************)
(* Bounds, and the payloads the packet producer hands to decode            *)
(***************************************************************************)
MaxType == 34   \* event type bytes 0..MaxType (and 255) are tried
MaxBody == 2    \* free-form bodies have up to MaxBody bytes
MaxCut == 2     \* payloads are truncated by up to MaxCut bytes
MaxRows == 2    \* rows events carry up to MaxRows rows (or before/after pairs)

\* uint32 as little-endian bytes
LE4(n) == <<n % 256, (n \div 256) % 256, (n \div 65536) % 256, n \div 16777216>>

Header(type, size) ==
    <<0, 0, 0, 0>> \o <<type>> \o <<1, 0, 0, 0>> \o LE4(size) \o <<0, 0, 0, 0>> \o <<0, 0>>

\* a payload whose header announces its real size
Event(type, body) == Header(type, eventHeaderSize + Len(body)) \o body

RECURSIVE Repeat(_, _)
\* n copies of s, concatenated
Repeat(s, n) == IF n <= 0 THEN <<>> ELSE s \o Repeat(s, n - 1)

FreeBodies == {Repeat(<<7>>, n) : n \in 0..MaxBody}

\* the four bytes a server appends when checksums are on
Crc == <<170, 187, 204, 221>>

\* "5.7.26-log"
Version57 == <<53, 46, 55, 46, 50, 54, 45, 108, 111, 103>>

\* "5.5.8"
Version55 == <<53, 46, 53, 46, 56>>

FormatBody(version, alg) ==
    <<4, 0>> \o version \o Zeros(50 - Len(version)) \o <<0, 0, 0, 0>> \o <<eventHeaderSize>>
        \o <<56, 13>> \o <<alg>> \o Crc

FormatPayloads ==
    {Event(FormatDescriptionEventType, FormatBody(Version57, alg)) : alg \in {0, 1}}
    \cup {Event(FormatDescriptionEventType, FormatBody(Version55, 1))}

U64(n) == <<n, 0, 0, 0, 0, 0, 0, 0>>

TableIdBytes(id) == <<id, 0, 0, 0, 0, 0>>

\* database "d", table "t"
TableMapBody(id, types, meta, nullability) ==
    TableIdBytes(id) \o <<1, 0>> \o <<1, 100, 0>> \o <<1, 116, 0>> \o <<Len(types)>> \o types
        \o <<Len(meta)>> \o meta \o nullability

\* table 1 as (TINY, SHORT)
TableMapA == Event(TableMapEventType, TableMapBody(1, <<fieldTypeTiny, fieldTypeShort>>, <<>>, <<2>>))

\* table 1 as (TINY, SHORT), as (SHORT, TINY), and as (TINY, SHORT) with a nullability
\* block of the wrong length; table 2 as (TINY, SHORT)
TableMapPayloads ==
    {TableMapA}
    \cup {Event(TableMapEventType, b) :
            b \in { TableMapBody(1, <<fieldTypeShort, fieldTypeTiny>>, <<>>, <<0>>),
                    TableMapBody(1, <<fieldTypeTiny, fieldTypeShort>>, <<>>, <<2, 0>>),
                    TableMapBody(2, <<fieldTypeTiny, fieldTypeShort>>, <<>>, <<2>>) }}

RowsTypes == {WriteRowsEventType, UpdateRowsEventType, DeleteRowsEventType}

\* one row image with two columns included, three bytes of values: no NULL
RowImage == <<0, 5, 7, 0>>

RowsBody(type, id, columnCount, bitmap, rowBytes) ==
    TableIdBytes(id) \o <<0, 0>> \o <<2, 0>> \o <<columnCount>> \o bitmap
        \o (IF type = UpdateRowsEventType THEN bitmap ELSE <<>>) \o rowBytes

\* n rows (n before/after pairs for an update)
RowsOf(type, n) == Repeat(RowImage, IF type = UpdateRowsEventType THEN 2 * n ELSE n)

WriteOneRow == Event(WriteRowsEventType, RowsBody(WriteRowsEventType, 1, 2, <<3>>, RowImage))

RowsPayloads ==
    \* table 1, announced or not, both columns included
    {Event(type, RowsBody(type, 1, 2, <<3>>, RowsOf(type, n))) : type \in RowsTypes, n \in 0..MaxRows}
    \* table 3 is never announced
    \cup {Event(type, RowsBody(type, 3, 2, <<3>>, RowsOf(type, n))) :
            type \in {WriteRowsEventType, UpdateRowsEventType}, n \in 0..1}
    \* no column included, or no column at all, followed or not by a free byte
    \cup {Event(WriteRowsEventType, RowsBody(WriteRowsEventType, 1, cc, IF cc = 0 THEN <<>> ELSE <<0>>, b)) :
            cc \in {0, 2}, b \in {<<>>, <<7>>}}
    \cup {Event(UpdateRowsEventType, RowsBody(UpdateRowsEventType, 1, 2, <<0>>, <<7>>))}
    \* the second column only, NULL in the first row and not in the second
    \cup {Event(WriteRowsEventType, RowsBody(WriteRowsEventType, 1, 2, <<2>>, <<1, 0, 7, 0>>))}

XidPayload == Event(XidEventType, U64(3))

GtidPayload == Event(GtidEventType, <<1>> \o Zeros(15) \o <<9>> \o U64(5))

QueryBody(b) ==
    <<9, 0, 0, 0>> \o <<1, 0, 0, 0>> \o <<1>> \o <<0, 0>> \o <<1, 0>> \o <<6>> \o <<100>> \o <<0>> \o b

OtherPayloads ==
    {Event(RotateEventType, U64(4) \o b) : b \in FreeBodies}
    \cup {Event(QueryEventType, QueryBody(<<7>>)), XidPayload,
          Event(RowsQueryEventType, <<1, 7>>), GtidPayload,
          Event(0, <<7, 0>>), Event(255, <<>>)}

WellFormed == FormatPayloads \cup TableMapPayloads \cup RowsPayloads \cup OtherPayloads

Body(w) == Slice(w, eventHeaderSize, Len(w))

\* events as a server with checksums on sends them
WithChecksum ==
    {Event(w[5], Body(w) \o Crc) :
        w \in {XidPayload, Event(RotateEventType, U64(4) \o <<7>>), TableMapA, WriteOneRow}}

\* cut short after the header, the header announcing the shortened size
Truncated ==
    {Event(w[5], Slice(w, eventHeaderSize, Len(w) - k)) :
        w \in { Event(FormatDescriptionEventType, FormatBody(Version57, 1)),
                TableMapA, WriteOneRow, XidPayload, GtidPayload,
                Event(QueryEventType, QueryBody(<<>>)) },
        k \in 1..MaxCut}

\* the header's event_size differs from the payload's length
BadSize ==
    {Header(w[5], Len(w) + d) \o Body(w) :
        w \in {Event(FormatDescriptionEventType, FormatBody(Version57, 1)), TableMapA}, d \in {-1, 1}}

\* shorter than a header
Short == {Slice(XidPayload, 0, n) : n \in {0, eventHeaderSize - 1}}

Payloads == WellFormed \cup WithChecksum \cup Truncated \cup BadSize \cup Short

TypeBytes == (0..MaxType) \cup {255}

\* a well-formed body for each type that has a parser; the rows are of table 1
TypedPayloads ==
    {Event(FormatDescriptionEventType, FormatBody(Version57, 0)), TableMapA, WriteOneRow,
     Event(UpdateRowsEventType, RowsBody(UpdateRowsEventType, 1, 2, <<3>>, RowImage \o RowImage)),
     Event(DeleteRowsEventType, RowsBody(DeleteRowsEventType, 1, 2, <<3>>, RowImage)),
     Event(RotateEventType, U64(4) \o <<7>>), Event(QueryEventType, QueryBody(<<7>>)),
     XidPayload, Event(RowsQueryEventType, <<1, 7>>), GtidPayload}

\* every type byte over every free body, and the well-formed ones
DispatchPayloads == {Event(t, b) : t \in TypeBytes, b \in FreeBodies} \cup TypedPayloads

(***************************************************************************)
(* The decoder as a state machine: decode is called with one payload       *)
(* after another, until a call panics or fails to return                   *)
(***************************************************************************)
NoCall == [payload |-> <<>>, outcome |-> "none", ev |-> Nil, parsed |-> FALSE,
           trimmed |-> FALSE, end |-> 0, after |-> <<>>, images |-> <<>>,
           failed |-> <<>>, pos |-> 0, len |-> 0]

EmptyTables == [id \in {} |-> Nil]

\* no helper function is being called
NoHelper == [fn |-> "none"]

\* a new EventDecoder and a new EventQueue
InitProgram ==
    /\ format = Nil
    /\ tables = EmptyTables
    /\ status = "ready"
    /\ last = NoCall
    /\ seenFD = Nil
    /\ ch = <<>>
    /\ errCh = <<>>
    /\ qerr = 0
    /\ pushed = 0
    /\ sent = 0
    /\ popped = <<>>

Init == InitProgram /\ call = NoHelper

\* one call dec.decode(data), but for what becomes of call
DecodeCall(data, r) ==
    /\ status = "ready"
    /\ r = decode(format, tables, data)
    /\ format' = r.format
    /\ tables' = r.tables
    /\ status' = IF r.outcome = "panic" THEN "panicked"
                 ELSE IF r.outcome = "diverges" THEN "diverged"
                 ELSE "ready"
    /\ last' = [payload |-> data, outcome |-> r.outcome, ev |-> r.ev,
                parsed |-> r.parsed, trimmed |-> r.trimmed, end |-> r.end,
                after |-> r.after, images |-> r.images, failed |-> r.failed,
                pos |-> r.pos, len |-> r.len]
    /\ seenFD' = IF r.outcome = "event" /\ r.ev.kind = "FormatDescription"
                 THEN r.ev ELSE seenFD
    /\ UNCHANGED queueVars

Decode(data) ==
    /\ status = "ready"
    /\ \E r \in {decode(format, tables, data)} :
          /\ format' = r.format
          /\ tables' = r.tables
          /\ status' = IF r.outcome = "panic" THEN "panicked"
                       ELSE IF r.outcome = "diverges" THEN "diverged"
                       ELSE "ready"
          /\ last' = [payload |-> data, outcome |-> r.outcome, ev |-> r.ev,
                      parsed |-> r.parsed, trimmed |-> r.trimmed, end |-> r.end,
                      after |-> r.after, images |-> r.images, failed |-> r.failed,
                      pos |-> r.pos, len |-> r.len]
          /\ seenFD' = IF r.outcome = "event" /\ r.ev.kind = "FormatDescription"
                       THEN r.ev ELSE seenFD
    /\ UNCHANGED <<queueVars, call>>

Next == \E data \in Payloads : Decode(data)

Spec == Init /\ [][Next]_vars

\* one type byte after another, whatever the body
DispatchNext == \E data \in DispatchPayloads : Decode(data)

DispatchSpec == Init /\ [][DispatchNext]_vars

(***************************************************************************)
(* Properties of the decoder                                               *)
(***************************************************************************)
\* the type byte of a payload that has a header
TypeOf(data) == data[5]

\* the event_size field of a payload that has a header
EventSizeOf(data) == LittleEndian(Slice(data, 9, 13))

\* the table id a rows or table map payload starts with
TableIdOf(data) == LittleEndian(Slice(data, eventHeaderSize, eventHeaderSize + 6))

\* the last call returned an event of this kind
Returned(kind) == last.outcome = "event" /\ last.ev.kind = kind

\* C1: the body handed to a payload parser has lost its last 4 bytes exactly when a
\* FormatDescription event was decoded earlier, the most recent one has
\* checksum_alg = 1, and the event at hand is not itself a FormatDescription.
C1_TrimmedIffChecksum ==
    last.parsed =>
        (last.trimmed <=> /\ seenFD # Nil
                          /\ seenFD.checksumAlg = 1
                          /\ TypeOf(last.payload) # FormatDescriptionEventType)

\* C2: after decode has returned a FormatDescriptionEvent, the decoder's format is
\* that event.
C2_FormatIsLastFormatDescription == Returned("FormatDescription") => format = last.ev

\* C3: a decode that returns a TableMap event makes it the entry of its table id and
\* leaves every other entry alone; any other decode leaves the cache as it is (no
\* entry is ever removed); a rows event is bound to the entry its table id has.
C3_TablesCache ==
    [][/\ last'.outcome = "event" /\ last'.ev.kind = "TableMap" =>
            /\ DOMAIN tables' = (DOMAIN tables) \cup {last'.ev.TableID}
            /\ tables'[last'.ev.TableID] = last'.ev
            /\ \A id \in (DOMAIN tables) \ {last'.ev.TableID} : tables'[id] = tables[id]
       /\ ~(last'.outcome = "event" /\ last'.ev.kind = "TableMap") => tables' = tables
       /\ (last'.outcome = "event" /\ last'.ev.kind = "Rows"
             /\ last'.ev.TableID \in DOMAIN tables) =>
            last'.ev.Table = tables[last'.ev.TableID]]_vars

\* a rows event bound to the second announcement of table 1, table 2 being cached too
C3_Witness ==
    /\ Returned("Rows")
    /\ last.ev.TableID = 1
    /\ {1, 2} \subseteq DOMAIN tables
    /\ last.ev.Table # Nil
    /\ last.ev.Table = tables[1]
    /\ last.ev.Table.ColumnTypes = <<fieldTypeShort, fieldTypeTiny>>
    /\ Len(last.ev.Rows) > 0

\* the last call decoded a rows event whose table id has no entry in the cache
RowsOfUnknownTable ==
    /\ last.parsed
    /\ TypeOf(last.payload) \in RowsTypes
    /\ Len(last.payload) >= eventHeaderSize + 6
    /\ TableIdOf(last.payload) \notin DOMAIN tables

\* C4: decode of a rows event whose table id has no entry in the cache returns an
\* error: no panic, no event without a table.
C4_UnknownTableIsError == RowsOfUnknownTable => last.outcome = "error"

\* C5: a decode that returns an error leaves format and tables as they were.
C5_ErrorLeavesState ==
    [][last'.outcome = "error" => format' = format /\ tables' = tables]_vars

\* a TableMap whose parse failed, for a table id that is cached
C5_Witness ==
    /\ last.outcome = "error"
    /\ last.parsed
    /\ TypeOf(last.payload) = TableMapEventType
    /\ TableIdOf(last.payload) \in DOMAIN tables

\* shorter than a header, or announcing another size than its own
BadHeader(data) == Len(data) < eventHeaderSize \/ EventSizeOf(data) # Len(data)

\* C6: a payload shorter than 19 bytes, or whose event_size is not its length, makes
\* decode return an error and no event; no payload parser runs and format and tables
\* stay as they were.
C6_BadHeaderIsError ==
    [][BadHeader(last'.payload) =>
          /\ last'.outcome = "error"
          /\ last'.ev = Nil
          /\ ~last'.parsed
          /\ format' = format
          /\ tables' = tables]_vars

\* a TableMap with a complete header and the wrong event_size, refused
C6_Witness ==
    /\ Len(last.payload) >= eventHeaderSize
    /\ EventSizeOf(last.payload) # Len(last.payload)
    /\ TypeOf(last.payload) = TableMapEventType
    /\ last.outcome = "error"

\* C7: decode never panics, whatever the payload.
C7_NoPanic == last.outcome # "panic"

\* the kind of event the dispatch table gives a type byte
KindOf(type) ==
    IF type = FormatDescriptionEventType THEN "FormatDescription"
    ELSE IF type = RotateEventType THEN "Rotate"
    ELSE IF type = QueryEventType THEN "Query"
    ELSE IF type = XidEventType THEN "XID"
    ELSE IF type = RowsQueryEventType THEN "RowsQuery"
    ELSE IF type = GtidEventType THEN "Gtid"
    ELSE IF type = TableMapEventType THEN "TableMap"
    ELSE IF type \in RowsTypes THEN "Rows"
    ELSE "Unsupported"

\* C8: an event that decode returns is of the kind the dispatch table gives its type
\* byte, and a well-formed body of a type with a parser does yield an event (a rows
\* event, once its table is cached); a type byte without a parser always yields an
\* UnsupportedEvent whose data is the whole body after the header, up to the logical
\* end of the packet.
C8_Dispatch ==
    /\ last.outcome = "event" => last.ev.kind = KindOf(TypeOf(last.payload))
    /\ (last.payload \in TypedPayloads
          /\ (TypeOf(last.payload) \in RowsTypes => 1 \in DOMAIN tables)) =>
          last.outcome = "event"
    /\ (last.parsed /\ KindOf(TypeOf(last.payload)) = "Unsupported") =>
          /\ last.outcome = "event"
          /\ last.ev.data = Slice(last.payload, eventHeaderSize, last.end)

\* a GTID event returned as such
C8_Witness == Returned("Gtid") /\ last.ev.header.Type = GtidEventType

\* C9: every decode call returns.
C9_DecodeTerminates == last.outcome # "diverges"

(***************************************************************************)
(* event_queue.go: one producer, one consumer                              *)
(***************************************************************************)
QueueCap == 2   \* capacity of the value channel
MaxPush == 3    \* the producer sends up to MaxPush events
MaxErrs == 2    \* and up to MaxErrs errors
MaxPops == 3    \* the consumer calls Pop up to MaxPops times

\* the producer: q.ch <- event, which blocks while the channel is full
Push ==
    /\ pushed < MaxPush
    /\ Len(ch) < QueueCap
    /\ pushed' = pushed + 1
    /\ ch' = Append(ch, pushed + 1)
    /\ UNCHANGED <<errCh, qerr, sent, popped>>
    /\ UNCHANGED <<decVars, call>>

\* the producer: q.errCh <- err
SendErr ==
    /\ sent < MaxErrs
    /\ sent' = sent + 1
    /\ errCh' = Append(errCh, sent + 1)
    /\ UNCHANGED <<ch, qerr, pushed, popped>>
    /\ UNCHANGED <<decVars, call>>

\* what a Pop call returned: (event, nil), (nil, q.err) or (nil, ctx.Err()); done and
\* before record what the call found: its context done, and the events buffered in ch
Result(kind, v, done, before) == [kind |-> kind, v |-> v, done |-> done, before |-> before]

\* a Pop whose cancellation case receives and drops the oldest buffered event
Pop_cancelDiscards(done) ==
    /\ Len(popped) < MaxPops
    /\ \/ /\ ch # <<>>
          /\ ch' = Tail(ch)
          /\ popped' = Append(popped, Result("event", Head(ch), done, ch))
          /\ UNCHANGED <<errCh, qerr>>
       \/ /\ errCh # <<>>
          /\ errCh' = Tail(errCh)
          /\ qerr' = Head(errCh)
          /\ popped' = Append(popped, Result("error", Head(errCh), done, ch))
          /\ UNCHANGED ch
       \/ /\ done
          /\ popped' = Append(popped, Result("cancelled", 0, done, ch))
          /\ ch' = IF ch = <<>> THEN ch ELSE Tail(ch)
          /\ UNCHANGED <<errCh, qerr>>
    /\ UNCHANGED <<pushed, sent>>
    /\ UNCHANGED <<decVars, call>>

\* a Pop that returns the oldest event and leaves it in the channel
Pop_peek(done) ==
    /\ Len(popped) < MaxPops
    /\ \/ /\ ch # <<>>
          /\ popped' = Append(popped, Result("event", Head(ch), done, ch))
          /\ UNCHANGED <<ch, errCh, qerr>>
       \/ /\ errCh # <<>>
          /\ errCh' = Tail(errCh)
          /\ qerr' = Head(errCh)
          /\ popped' = Append(popped, Result("error", Head(errCh), done, ch))
          /\ UNCHANGED ch
       \/ /\ done
          /\ popped' = Append(popped, Result("cancelled", 0, done, ch))
          /\ UNCHANGED <<ch, errCh, qerr>>
    /\ UNCHANGED <<pushed, sent>>
    /\ UNCHANGED <<decVars, call>>

\* a Pop that receives the newest buffered event instead of the oldest
Pop_newestFirst(done) ==
    /\ Len(popped) < MaxPops
    /\ \/ /\ ch # <<>>
          /\ ch' = SubSeq(ch, 1, Len(ch) - 1)
          /\ popped' = Append(popped, Result("event", ch[Len(ch)], done, ch))
          /\ UNCHANGED <<errCh, qerr>>
       \/ /\ errCh # <<>>
          /\ errCh' = Tail(errCh)
          /\ qerr' = Head(errCh)
          /\ popped' = Append(popped, Result("error", Head(errCh), done, ch))
          /\ UNCHANGED ch
       \/ /\ done
          /\ popped' = Append(popped, Result("cancelled", 0, done, ch))
          /\ UNCHANGED <<ch, errCh, qerr>>
    /\ UNCHANGED <<pushed, sent>>
    /\ UNCHANGED <<decVars, call>>

\* One call q.Pop(ctx) at the moment it returns; done: ctx is done.  select takes
\* any of its cases that can proceed, and the call blocks while none can.
Pop(done) ==
    /\ Len(popped) < MaxPops
    /\ \/ /\ ch # <<>>
          /\ ch' = Tail(ch)
          /\ popped' = Append(popped, Result("event", Head(ch), done, ch))
          /\ UNCHANGED <<errCh, qerr>>
       \/ /\ errCh # <<>>
          /\ errCh' = Tail(errCh)
          /\ qerr' = Head(errCh)
          /\ popped' = Append(popped, Result("error", Head(errCh), done, ch))
          /\ UNCHANGED ch
       \/ /\ done
          /\ popped' = Append(popped, Result("cancelled", 0, done, ch))
          /\ UNCHANGED <<ch, errCh, qerr>>
    /\ UNCHANGED <<pushed, sent>>
    /\ UNCHANGED <<decVars, call>>

QueueNext == Push \/ SendErr \/ \E done \in BOOLEAN : Pop(done)

QueueSpec == Init /\ [][QueueNext]_vars

\* C10: once a Pop call has returned an error received from the error channel, every
\* later Pop call returns that same error, and never an event.
C10_ErrorIsSticky ==
    \A i, j \in DOMAIN popped :
        (i < j /\ popped[i].kind = "error") =>
            (popped[j].kind = "error" /\ popped[j].v = popped[i].v)

\* the consumer is scheduled: a Pop with a live context that can return does return
QueueFairSpec == QueueSpec /\ WF_vars(Pop(FALSE))

RECURSIVE EventsFrom(_)
\* the events a sequence of Pop results returned, in the order of the calls
EventsFrom(results) ==
    IF results = <<>> THEN <<>>
    ELSE (IF Head(results).kind = "event" THEN <<Head(results).v>> ELSE <<>>)
             \o EventsFrom(Tail(results))

\* the events the Pop calls after the i-th returned
EventsAfter(i) == EventsFrom(SubSeq(popped, i + 1, Len(popped)))

\* s, from which its first n elements are dropped
Drop(s, n) == SubSeq(s, n + 1, Len(s))

\* the shorter of two lengths
Min(a, b) == IF a < b THEN a ELSE b

\* C11: a Pop that returns the cancellation error leaves the value channel and the
\* latched error as they were, and the events that were buffered when it returned
\* are what later Pop calls return first, in order, the rest still heading the channel.
C11_CancelKeepsEvents ==
    [][(popped' # popped /\ popped'[Len(popped')].kind = "cancelled") =>
            (ch' = ch /\ qerr' = qerr)]_vars
    /\ [](\A i \in DOMAIN popped :
            popped[i].kind = "cancelled" =>
                LET B == popped[i].before
                    E == EventsAfter(i)
                    n == Min(Len(B), Len(E))
                IN /\ SubSeq(E, 1, n) = SubSeq(B, 1, n)
                   /\ Len(ch) >= Len(B) - n
                   /\ Drop(B, n) = SubSeq(ch, 1, Len(B) - n))

\* a cancelled Pop that found two events buffered, both returned by the next two Pop
\* calls, made with a live context
C11_Witness ==
    /\ Len(popped) = 3
    /\ popped[1].kind = "cancelled"
    /\ popped[1].before = <<1, 2>>
    /\ popped[2] = Result("event", 1, FALSE, <<1, 2>>)
    /\ popped[3].kind = "event" /\ popped[3].v = 2 /\ ~popped[3].done

Undisturbed == sent = 0 /\ \A i \in DOMAIN popped : ~popped[i].done

\* C13: with a live context and no error, a Pop returns only when the value channel
\* holds an event, returns the events in the order they were pushed, and the Pop
\* after the k-th does return an event once one is buffered.
C13_PopDeliversInOrder ==
    /\ [][(Undisturbed' /\ popped' # popped) => ch # <<>>]_vars
    /\ [](Undisturbed => \A i \in DOMAIN popped : popped[i].kind = "event" /\ popped[i].v = i)
    /\ ([]Undisturbed =>
          \A k \in 0..(MaxPops - 1) :
              (Len(popped) = k /\ ch # <<>>) ~> (Len(popped) > k /\ popped[k + 1].kind = "event"))

\* three events returned in order to calls with a live context, none cancelled
C13_Witness ==
    /\ Undisturbed
    /\ Len(popped) = 3
    /\ EventsFrom(popped) = <<1, 2, 3>>
    /\ ch = <<>>

(***************************************************************************)
(* Rows events over several announcements of a table                       *)
(***************************************************************************)
\* a column type byte that const.go does not define
UnknownColumnType == 200

\* table 1 as (STRING announcing an ENUM of pack length 3, SHORT)
TableMapEnum3 ==
    Event(TableMapEventType,
          TableMapBody(1, <<fieldTypeString, fieldTypeShort>>, <<fieldTypeEnum, 3>>, <<0>>))

\* table 1 as (a column of unknown type, SHORT)
TableMapUnknown ==
    Event(TableMapEventType, TableMapBody(1, <<UnknownColumnType, fieldTypeShort>>, <<>>, <<0>>))

\* table 1 as (JSON, SHORT)
TableMapJSON ==
    Event(TableMapEventType, TableMapBody(1, <<fieldTypeJSON, fieldTypeShort>>, <<4>>, <<0>>))

\* table 2 as (FLOAT, SHORT) with an empty metadata block and two bytes of nullability
TableMapShortMeta ==
    Event(TableMapEventType, TableMapBody(2, <<fieldTypeFloat, fieldTypeShort>>, <<>>, <<0, 0>>))

\* table 2 as (TINY, SHORT) without its nullability block
TableMapNoNullability ==
    Event(TableMapEventType, TableMapBody(2, <<fieldTypeTiny, fieldTypeShort>>, <<>>, <<>>))

RowsTableMaps ==
    TableMapPayloads \cup {TableMapEnum3, TableMapUnknown, TableMapJSON, TableMapShortMeta,
                           TableMapNoNullability}

\* an update of table 1 whose two images are keyed by different bitmaps
UpdateBody(columns, updatedColumns, rowBytes) ==
    TableIdBytes(1) \o <<0, 0>> \o <<2, 0>> \o <<2>> \o columns \o updatedColumns \o rowBytes

RowsEvents ==
    \* both columns, no NULL: n rows, or n pairs
    {Event(type, RowsBody(type, 1, 2, <<3>>, RowsOf(type, n))) : type \in RowsTypes, n \in 0..MaxRows}
    \* updates: the after-image keyed by the second column only; the before-image with
    \* a NULL first column; the after-image cut after its null bitmap
    \cup {Event(UpdateRowsEventType, b) :
            b \in { UpdateBody(<<3>>, <<2>>, RowImage \o <<0, 7, 0>>),
                    UpdateBody(<<3>>, <<3>>, <<1, 7, 0>> \o RowImage),
                    UpdateBody(<<3>>, <<3>>, <<1, 7, 0>> \o <<0>>),
                    UpdateBody(<<2>>, <<1>>, <<0, 7, 0>> \o <<0>>) }}
    \* writes: the second column only, NULL and not NULL, also with the unused bit 1
    \* of the null bitmap set; the first column only; a
    \* row of the second column followed by one of the first
    \cup {Event(WriteRowsEventType, RowsBody(WriteRowsEventType, 1, 2, bitmap, rowBytes)) :
            <<bitmap, rowBytes>> \in { <<<<2>>, <<1, 0, 7, 0>>>>,
                                       <<<<2>>, <<2, 0, 0, 1>>>>,
                                       <<<<1>>, <<0, 5>>>>,
                                       <<<<1>>, <<0>>>>,
                                       <<<<3>>, <<1, 7, 0>>>>,
                                       <<<<3>>, <<0, 7, 0>>>> }}

RowsSpecPayloads == RowsTableMaps \cup RowsEvents

\* announcements of tables and rows events, in any order
RowsNext == \E data \in RowsSpecPayloads : Decode(data)

RowsSpec == Init /\ [][RowsNext]_vars

(***************************************************************************)
(* Properties of rows events                                               *)
(***************************************************************************)
ReturnedRows(type) == Returned("Rows") /\ TypeOf(last.payload) = type

\* the number of columns among 0..ColumnCount-1 that bitmap includes
Popcount(ev, bitmap) == includedCount(bitmap, ev.ColumnCount, 0)

\* C14: the rows of every UpdateRows event returned by decode come in pairs, the
\* first of each pair as wide as included_columns says and the second as wide as
\* updated_columns says, also when one of the two images fails to decode.
C14_UpdatePairs ==
    ReturnedRows(UpdateRowsEventType) =>
        /\ Len(last.ev.Rows) % 2 = 0
        /\ \A i \in DOMAIN last.ev.Rows :
              Len(last.ev.Rows[i]) =
                  Popcount(last.ev, IF i % 2 = 1 THEN last.ev.Columns
                                    ELSE last.ev.UpdatedColumns)

\* C15: every row of a returned rows event has one slot per column its bitmap
\* includes (included_columns, or updated_columns for an after-image), and the null
\* bitmap read for it has (that many + 7) / 8 bytes.
C15_RowWidth ==
    Returned("Rows") =>
        /\ Len(last.images) = Len(last.ev.Rows)
        /\ \A i \in DOMAIN last.ev.Rows :
              /\ last.images[i].bitmap \in
                     IF TypeOf(last.payload) = UpdateRowsEventType
                     THEN {last.ev.Columns, last.ev.UpdatedColumns}
                     ELSE {last.ev.Columns}
              /\ Len(last.ev.Rows[i]) = Popcount(last.ev, last.images[i].bitmap)
              /\ Len(last.images[i].nulls) = (Len(last.ev.Rows[i]) + 7) \div 8

\* an update whose before-image has both columns and whose after-image has one
C15_Witness ==
    /\ ReturnedRows(UpdateRowsEventType)
    /\ Len(last.ev.Rows) = 2
    /\ last.images[1].bitmap = <<3>> /\ Len(last.ev.Rows[1]) = 2
    /\ last.images[2].bitmap = <<2>> /\ Len(last.ev.Rows[2]) = 1
    /\ Len(last.images[2].nulls) = 1

(***************************************************************************)
(* Properties of TableMap events                                           *)
(***************************************************************************)
\* The layout of a TableMap body, read off the payload: the column count, and the
\* bytes that follow the metadata block.  Both lengths are below 251 here.
TableNameLenPos(data) == eventHeaderSize + 11 + data[eventHeaderSize + 9]
ColumnCountPos(data) == TableNameLenPos(data) + data[TableNameLenPos(data)] + 2
MetaLenPos(data) == ColumnCountPos(data) + data[ColumnCountPos(data)] + 1
NullabilityOf(data) == Drop(data, MetaLenPos(data) + data[MetaLenPos(data)])

\* a TableMap payload, whole up to the end of its metadata block, whose nullability
\* block has not (column_count + 7) / 8 bytes
BadNullability(data) ==
    /\ Len(data) > eventHeaderSize + 9
    /\ TypeOf(data) = TableMapEventType
    /\ Len(data) >= TableNameLenPos(data)
    /\ Len(data) >= ColumnCountPos(data)
    /\ Len(data) >= MetaLenPos(data)
    /\ Len(data) >= MetaLenPos(data) + data[MetaLenPos(data)]
    /\ Len(NullabilityOf(data)) # (data[ColumnCountPos(data)] + 7) \div 8

TableMapLengths(e) ==
    /\ Len(e.ColumnTypes) = e.ColumnCount
    /\ Len(e.ColumnMeta) = e.ColumnCount
    /\ Len(e.ColumnNullability) = (e.ColumnCount + 7) \div 8

\* C16: every TableMap event that decode returns, and every entry of the tables
\* cache, has column_count types, column_count metadata values and
\* (column_count + 7) / 8 nullability bytes; a body with a nullability block of
\* another length makes decode return an error and leaves the cache as it was.
C16_TableMapLengths ==
    /\ [](Returned("TableMap") => TableMapLengths(last.ev))
    /\ [](\A id \in DOMAIN tables : TableMapLengths(tables[id]))
    /\ [][(last' # last /\ BadNullability(last'.payload))
              => (last'.outcome = "error" /\ tables' = tables)]_vars

(***************************************************************************)
(* Checksums                                                               *)
(***************************************************************************)
\* four bytes a checksum may be replaced by
OtherCrc == Zeros(4)

\* data with its last 4 bytes replaced
ReplaceTail(data, crc) == Slice(data, 0, Len(data) - 4) \o crc

\* a FormatDescription event with checksum_alg = 1 has been decoded, and the payload
\* is an event of another type that is long enough to end in a checksum
ChecksummedEvent(data) ==
    /\ seenFD # Nil
    /\ seenFD.checksumAlg = 1
    /\ Len(data) >= eventHeaderSize + 4
    /\ TypeOf(data) # FormatDescriptionEventType

\* C17: once a FormatDescription event with checksum_alg = 1 has been decoded, a
\* decoder in the same state handed the same payload of another type with other
\* last 4 bytes returns the same event, or the same failure, and ends in the same state.
C17_ChecksumInvariance ==
    [][(last' # last /\ ChecksummedEvent(last'.payload)) =>
          \E r \in {decode(format, tables, ReplaceTail(last'.payload, OtherCrc))} :
             /\ r.outcome = last'.outcome
             /\ r.ev = last'.ev
             /\ r.format = format'
             /\ r.tables = tables']_vars

(***************************************************************************)
(* mysqlVersion.greaterOrEqual on its own                                  *)
(***************************************************************************)
\* the versions compared: around 5.6.1, with patch levels around 256
Versions == [x : {5, 6}, y : {5, 6}, z : {0, 1, 35, 255, 256, 257, 300, 512}]

VersionInit ==
    /\ InitProgram
    /\ call \in {[fn |-> "greaterOrEqual", v |-> v, other |-> other, done |-> FALSE,
                  result |-> FALSE] : v \in Versions, other \in Versions}

\* v.greaterOrEqual(other)
Compare ==
    /\ call.fn = "greaterOrEqual"
    /\ ~call.done
    /\ call' = [call EXCEPT !.done = TRUE, !.result = greaterOrEqual(call.v, call.other)]
    /\ UNCHANGED <<decVars, queueVars>>

VersionSpec == VersionInit /\ [][Compare]_vars

\* (a.x, a.y, a.z) >= (b.x, b.y, b.z) in the lexicographic order
LexGreaterOrEqual(a, b) ==
    \/ a.x > b.x
    \/ a.x = b.x /\ a.y > b.y
    \/ a.x = b.x /\ a.y = b.y /\ a.z >= b.z

\* C18: v.greaterOrEqual(other) is true exactly when (v.x, v.y, v.z) is greater than
\* or equal to (other.x, other.y, other.z) in the lexicographic order, also when a
\* component is 256 or more.
C18_GreaterOrEqualIsLexicographic ==
    (call.fn = "greaterOrEqual" /\ call.done) =>
        (call.result <=> LexGreaterOrEqual(call.v, call.other))

(***************************************************************************)
(* FormatDescription events of servers of several versions                 *)
(***************************************************************************)
\* "5.7.26-log", "5.5.8", "5.6.1", "5.6.0-log", "5.6", "5", "" and "5.5.512"
FormatVersions ==
    {Version57, Version55, <<53, 46, 54, 46, 49>>, <<53, 46, 54, 46, 48, 45, 108, 111, 103>>,
     <<53, 46, 54>>, <<53>>, <<>>, <<53, 46, 53, 46, 53, 49, 50>>}

\* binlog version 4, the server version padded to 50 bytes, a timestamp, the length
\* of an event header, and what follows it
FormatBodyWith(version, rest) ==
    <<4, 0>> \o version \o Zeros(50 - Len(version)) \o <<0, 0, 0, 0>> \o <<eventHeaderSize>> \o rest

FormatSpecPayloads ==
    {Event(FormatDescriptionEventType, FormatBodyWith(version, lengths \o <<alg>> \o crc)) :
        version \in FormatVersions, lengths \in {<<>>, <<56>>, <<56, 13>>},
        alg \in {0, 1, 2}, crc \in {Crc, Zeros(4)}}

FormatNext == \E data \in FormatSpecPayloads : Decode(data)

FormatSpec == Init /\ [][FormatNext]_vars

\* the server version a FormatDescription payload carries
ServerVersionOf(data) == parseMysqlVersion(TrimNul(SubSeq(data, eventHeaderSize + 3, eventHeaderSize + 52)))

\* what follows the event_header_length byte
AfterHeaderLength(data) == Drop(data, eventHeaderSize + 57)

\* C19: of a FormatDescription event whose server version is 5.6.1 or more, the last
\* 5 bytes are taken off: checksum_alg is the first of them and post_header_lengths
\* is what lies between the event_header_length byte and them; of one whose version
\* is lower, or has fewer than three parts, nothing is taken off, checksum_alg is 0
\* and post_header_lengths is all that follows the event_header_length byte.
C19_FormatDescriptionParsing ==
    Returned("FormatDescription") =>
        LET rest == AfterHeaderLength(last.payload) IN
        IF LexGreaterOrEqual(ServerVersionOf(last.payload), checksumEnabledMysqlVersion)
        THEN /\ Len(rest) >= 5
             /\ last.ev.checksumAlg = rest[Len(rest) - 4]
             /\ last.ev.EventPostHeaderLengths = SubSeq(rest, 1, Len(rest) - 5)
        ELSE /\ last.ev.checksumAlg = 0
             /\ last.ev.EventPostHeaderLengths = rest

(***************************************************************************)
(* Columns of unknown type                                                 *)
(***************************************************************************)
\* the type bytes const.go names
KnownColumnTypes == (0..fieldTypeTimeV2) \cup (fieldTypeJSON..fieldTypeGeometry)

\* row i of the last event holds a value, not NULL, for column c (counted from 0)
HoldsColumn(i, c) ==
    /\ isBitSet(last.images[i].bitmap, c)
    /\ ~isBitSet(last.images[i].nulls, includedCount(last.images[i].bitmap, c, 0))

\* C20: decode returns no rows event with a row that holds a value for a column
\* whose type byte is not a known column type: such a row makes decode report an error.
C20_UnknownColumnTypeIsError ==
    (Returned("Rows") /\ last.ev.Table # Nil) =>
        \A i \in DOMAIN last.ev.Rows :
            \A c \in 0..(Min(last.ev.ColumnCount, Len(last.ev.Table.ColumnTypes)) - 1) :
                HoldsColumn(i, c) => last.ev.Table.ColumnTypes[c + 1] \in KnownColumnTypes

(***************************************************************************)
(* Pack lengths out of range                                               *)
(***************************************************************************)
\* C21: a rows event with a row image that holds, for an ENUM, SET or BIT column, a
\* value whose pack length is out of range is not returned: decode returns an error.
C21_BadPackLengthIsError ==
    (last.parsed /\ TypeOf(last.payload) \in RowsTypes /\ last.failed # <<>>)
        => last.outcome = "error"

(***************************************************************************)
(* The first fields of a TableMap event                                    *)
(***************************************************************************)
\* bytes from..to-1 of the body of a payload, counted from 0
BodyBytes(data, from, to) == Slice(data, eventHeaderSize + from, eventHeaderSize + to)

\* C22: the table_id of a decoded TableMap event is the little-endian value of bytes
\* 0..5 of its body, and its flags the little-endian value of bytes 6..7.
C22_TableMapHeaderFromWire ==
    Returned("TableMap") =>
        /\ last.ev.TableID = LittleEndian(BodyBytes(last.payload, 0, 6))
        /\ last.ev.Flags = LittleEndian(BodyBytes(last.payload, 6, 8))

(***************************************************************************)
(* The slots of a row                                                      *)
(***************************************************************************)
\* the column, counted from 0, that is the k-th (k from 1) of those bitmap includes
ColumnOfRank(bitmap, columnCount, k) ==
    CHOOSE c \in 0..(columnCount - 1) :
        isBitSet(bitmap, c) /\ includedCount(bitmap, c, 0) = k - 1

\* the value of column c of table read at offset off of the last payload: [p, v, err]
ValueAt(table, c, off) ==
    readTableColumnValue(Skip(newBinlogPacket(last.payload), off),
                         table.ColumnTypes[c + 1], table.ColumnMeta[c + 1])

RECURSIVE SlotOffset(_, _, _, _)
\* where the value of slot k of a row image begins, if slot k holds one: after the
\* null bitmap and the values of the slots before it that are not NULL
SlotOffset(table, columnCount, img, k) ==
    IF k = 1 THEN img.start + Len(img.nulls)
    ELSE Then(SlotOffset(table, columnCount, img, k - 1), LAMBDA off :
         IF isBitSet(img.nulls, k - 2) THEN off
         ELSE ValueAt(table, ColumnOfRank(img.bitmap, columnCount, k - 1), off).p.pos)

ColumnCall(data, columnType, meta, of) ==
    [fn |-> "readTableColumnValue", data |-> data, columnType |-> columnType, meta |-> meta,
     of |-> of, done |-> FALSE, v |-> NilValue, err |-> FALSE, panic |-> FALSE, pos |-> 0]

\* the three bytes of INT24 values around 0, 0x7FFFFF, 0x800000 and 0xFFFFFF
Int24Calls ==
    {ColumnCall(<<b0, b1, b2>>, fieldTypeInt24, 0, Nil) :
        b0 \in {0, 1, 255}, b1 \in {0, 255}, b2 \in {0, 1, 127, 128, 129, 255}}

RECURSIVE BigEndianBytes(_, _)
\* the size bytes of n, most significant first
BigEndianBytes(n, size) ==
    IF size = 0 THEN <<>> ELSE BigEndianBytes(n \div 256, size - 1) \o <<n % 256>>

\* the fractional bytes of frac microseconds at dec decimals: (dec+1)/2 bytes of
\* frac in units of 10^(6 - 2*((dec+1)/2))
FractionBytes(frac, dec) ==
    BigEndianBytes(frac \div (100 ^ (3 - (dec + 1) \div 2)), (dec + 1) \div 2)

\* the fractions a column of dec decimals can hold, among 0, one unit and .909090
Fractions(dec) == {(f \div (10 ^ (6 - dec))) * (10 ^ (6 - dec)) : f \in {0, 1000000 - 1, 909090}}
                      \cup {10 ^ (6 - dec) % 1000000}

\* the five bytes of 0000-00-00 00:00:00, 2016-03-05 12:34:56 and 9999-12-31 23:59:59
DateTimeBytes == {<<128, 0, 0, 0, 0>>, <<153, 152, 202, 200, 184>>, <<254, 243, 255, 126, 251>>}

DateTimeV2Calls ==
    UNION {{ColumnCall(d \o FractionBytes(f, dec), fieldTypeDateTimeV2, dec, Nil) :
               d \in DateTimeBytes, f \in Fractions(dec)} : dec \in 0..6}

\* a TIME value: a sign and hour, minute, second, microseconds
Time(neg, hour, minute, second, usec) ==
    [neg |-> neg, hour |-> hour, minute |-> minute, second |-> second, usec |-> usec]

\* times of both signs at the ends of each field's range, with a fraction dec
\* decimals can hold; zero has no sign
Times(dec) ==
    {Time(neg, h, m, sec, f) :
        neg \in BOOLEAN, h \in {0, 1, 23, 838}, m \in {0, 59}, sec \in {0, 1, 59},
        f \in Fractions(dec)} \ {Time(TRUE, 0, 0, 0, 0)}

\* the TIME_V2 bytes of t at dec decimals: 0x800000 plus the integer part of the
\* packed value +-((hour<<12 | minute<<6 | second)<<24 + usec) in three
\* big-endian bytes, then the fraction in two's complement
encodeTimeV2(t, dec) ==
    LET hms == t.hour * 4096 + t.minute * 64 + t.second
        msecLen == (dec + 1) \div 2
        frac == t.usec \div (100 ^ (3 - msecLen))
        borrow == t.neg /\ t.usec # 0
        intPart == IF ~t.neg THEN hms ELSE IF borrow THEN 0 - hms - 1 ELSE 0 - hms
    IN BigEndianBytes(8388608 + intPart, 3)
           \o BigEndianBytes(IF borrow THEN 256 ^ msecLen - frac ELSE frac, msecLen)

TimeV2Calls ==
    UNION {{ColumnCall(encodeTimeV2(t, dec), fieldTypeTimeV2, dec, t) : t \in Times(dec)} :
              dec \in 0..6}

ColumnCalls == Int24Calls \cup DateTimeV2Calls \cup TimeV2Calls

ColumnInit == InitProgram /\ call \in ColumnCalls

ReadColumn ==
    /\ call.fn = "readTableColumnValue"
    /\ ~call.done
    /\ \E r \in {readTableColumnValue(newBinlogPacket(call.data), call.columnType, call.meta)} :
          call' = [call EXCEPT !.done = TRUE, !.v = r.v, !.err = r.err,
                               !.panic = r.p.panic, !.pos = r.p.pos]
    /\ UNCHANGED <<decVars, queueVars>>

ColumnSpec == ColumnInit /\ [][ReadColumn]_vars

\* the call has returned a value of a column of type columnType
ReadA(columnType) ==
    /\ call.fn = "readTableColumnValue"
    /\ call.done /\ ~call.panic /\ ~call.err
    /\ call.columnType = columnType

\* C24: the value of a signed INT24 column is u, the little-endian value of its
\* three bytes, when u < 0x800000, and u - 0x1000000 otherwise.
C24_SignedInt24 ==
    ReadA(fieldTypeInt24) =>
        /\ call.pos = 3
        /\ call.v = IntValue(SignExtend(LittleEndian(call.data), 24))

IsDigits(s) == \A i \in DOMAIN s : s[i] \in 48..57

\* s is "YYYY-MM-DD HH:MM:SS"
IsDateTimeText(s) ==
    /\ Len(s) = 19
    /\ <<s[5], s[8], s[11], s[14], s[17]>> = <<45, 45, 32, 58, 58>>
    /\ IsDigits(SubSeq(s, 1, 4) \o SubSeq(s, 6, 7) \o SubSeq(s, 9, 10)
                   \o SubSeq(s, 12, 13) \o SubSeq(s, 15, 16) \o SubSeq(s, 18, 19))

\* C26: a DATETIME_V2 column of meta decimals decodes to the 19 characters
\* "YYYY-MM-DD HH:MM:SS" alone when meta = 0, and followed by '.' and exactly meta
\* digits when meta > 0, and the decoder consumes 5 + (meta+1)/2 bytes.
C26_DateTimeV2Shape ==
    ReadA(fieldTypeDateTimeV2) =>
        /\ call.pos = 5 + (call.meta + 1) \div 2
        /\ call.v.kind = "bytes"
        /\ Len(call.v.v) = IF call.meta = 0 THEN 19 ELSE 20 + call.meta
        /\ IsDateTimeText(SubSeq(call.v.v, 1, 19))
        /\ call.meta > 0 => /\ call.v.v[20] = 46
                            /\ IsDigits(SubSeq(call.v.v, 21, Len(call.v.v)))

\* the first position of the character c in s
IndexOf(s, c) == CHOOSE i \in 1..Len(s) : s[i] = c /\ \A j \in 1..(i - 1) : s[j] # c

RECURSIVE Number(_)
\* the number a string of decimal digits denotes
Number(s) == IF s = <<>> THEN 0 ELSE Number(SubSeq(s, 1, Len(s) - 1)) * 10 + (s[Len(s)] - 48)

\* the sign and the fields of a text "[-]H:M:S.F"
parseTime(s) ==
    LET neg == s # <<>> /\ s[1] = 45
        body == IF neg THEN Tail(s) ELSE s
        c1 == IndexOf(body, 58)
        rest1 == SubSeq(body, c1 + 1, Len(body))
        c2 == IndexOf(rest1, 58)
        rest2 == SubSeq(rest1, c2 + 1, Len(rest1))
        d == IndexOf(rest2, 46)
    IN [neg |-> neg, hour |-> SubSeq(body, 1, c1 - 1), minute |-> SubSeq(rest1, 1, c2 - 1),
        second |-> SubSeq(rest2, 1, d - 1), digits |-> SubSeq(rest2, d + 1, Len(rest2))]

\* C25: decoding the TIME_V2 bytes of a time t at precision p with meta = p gives
\* back the sign, the hour, minute and second and the p fractional digits of t,
\* having consumed 3 + (p+1)/2 bytes.
C25_TimeV2RoundTrip ==
    ReadA(fieldTypeTimeV2) =>
        /\ call.pos = 3 + (call.meta + 1) \div 2
        /\ call.v.kind = "bytes"
        /\ LET f == parseTime(call.v.v)
           IN /\ IsDigits(f.hour \o f.minute \o f.second \o f.digits)
              /\ f.neg = call.of.neg
              /\ Number(f.hour) = call.of.hour
              /\ Number(f.minute) = call.of.minute
              /\ Number(f.second) = call.of.second
              /\ Len(f.digits) = call.meta
              /\ Number(f.digits) = call.of.usec \div (10 ^ (6 - call.meta))

\* -838:59:59.999999 at six decimals and -00:00:01.9 at one have been decoded
C25_Witness ==
    /\ ReadA(fieldTypeTimeV2)
    /\ \/ call.of = Time(TRUE, 838, 59, 59, 999999) /\ call.meta = 6
          /\ call.v = BytesValue(<<45,56,51,56,58,53,57,58,53,57,46,57,57,57,57,57,57>>)
       \/ call.of = Time(TRUE, 0, 0, 1, 900000) /\ call.meta = 1
          /\ call.v = BytesValue(<<45,48,48,58,48,48,58,48,49,46,57>>)

(***************************************************************************)
(* The decoder's fields across calls                                       *)
(***************************************************************************)
\* the payload has a header and its type byte is type
HasType(data, type) == Len(data) >= eventHeaderSize /\ TypeOf(data) = type

\* C27: a call of decode on a payload of any type other than TableMap leaves
\* dec.tables unchanged, and on a payload of any type other than
\* FormatDescription leaves dec.format unchanged.
C27_DecodeFrame ==
    [][/\ ~HasType(last'.payload, TableMapEventType) => tables' = tables
       /\ ~HasType(last'.payload, FormatDescriptionEventType) => format' = format]_vars

\* a rows event of table 1 has been decoded while tables 1 and 2 are cached
C27_Witness ==
    /\ Returned("Rows")
    /\ DOMAIN tables = {1, 2}
    /\ last.ev.Table = tables[1]

(***************************************************************************)
(* The cursor of the packet of a call                                      *)
(***************************************************************************)
\* the cursor as the call left it: at a panic, as the panicking operation found it
Cursor == [data |-> last.after, len |-> last.len, pos |-> last.pos, panic |-> FALSE]

\* C28: the read offset of the packet of a decode call stays within 0 and the
\* logical end of the payload, and EOF holds exactly when no unread byte remains.
\* The offset only grows and the logical end only shrinks during a call, so the
\* cursor the call ends with is out of bounds if any cursor of the call was.
C28_CursorBounds ==
    last.outcome # "none" =>
        /\ 0 <= Cursor.pos /\ Cursor.pos <= Cursor.len
        /\ EOF(Cursor) <=> Cursor.pos >= Cursor.len

(***************************************************************************)
(* Events as objects: decode allocates each event, dec.tables and          *)
(* RowsEvent.Table hold pointers to TableMapEvent objects.  heap maps an   *)
(* address to the object at it, refs is dec.tables as addresses, held is a *)
(* rows event the caller has kept, with the address in its Table field and *)
(* the TableMapEvent that was there when the event was decoded             *)
(***************************************************************************)
MaxObjects == 4

Addresses == 1..MaxObjects

NoHold == [fn |-> "hold", heap |-> [a \in Addresses |-> Nil], refs |-> [id \in {} |-> 0],
           held |-> Nil]

\* the addresses dec.tables or the held event point to
Reachable(c) ==
    {c.refs[id] : id \in DOMAIN c.refs} \cup (IF c.held = Nil THEN {} ELSE {c.held.ref})

\* &TableMapEvent{...}: an address no live pointer holds
new(c) == CHOOSE a \in Addresses : a \notin Reachable(c) /\ \A b \in 1..(a - 1) : b \in Reachable(c)

\* what no pointer reaches is collected
collect(c) == [c EXCEPT !.heap = [a \in Addresses |-> IF a \in Reachable(c) THEN c.heap[a] ELSE Nil]]

\* a postDecode that copies the event over the object the table id already has
TableMapEventPostDecodeRef_inPlace(c, e) ==
    IF e.TableID \in DOMAIN c.refs
    THEN [c EXCEPT !.heap[c.refs[e.TableID]] = e]
    ELSE [c EXCEPT !.heap[new(c)] = e,
                   !.refs = [id \in (DOMAIN c.refs) \cup {e.TableID} |->
                                IF id = e.TableID THEN new(c) ELSE c.refs[id]]]

\* TableMapEvent.postDecode on pointers: dec.tables[e.TableID] = e, e a new object
TableMapEventPostDecodeRef(c, e) ==
    [c EXCEPT !.heap[new(c)] = e,
              !.refs = [id \in (DOMAIN c.refs) \cup {e.TableID} |->
                           IF id = e.TableID THEN new(c) ELSE c.refs[id]]]

\* the caller keeps the rows event ev: e.Table = dec.tables[e.TableID]
hold(c, ev) ==
    [c EXCEPT !.held = [ev |-> ev, ref |-> c.refs[ev.TableID],
                        table |-> c.heap[c.refs[ev.TableID]]]]

\* one call dec.decode(data); the caller keeps or drops a rows event it gets
DecodeHolding(data) ==
    /\ call.fn = "hold"
    /\ \E r \in {decode(format, tables, data)} :
          /\ DecodeCall(data, r)
          /\ IF r.outcome = "event" /\ r.ev.kind = "TableMap"
             THEN call' = collect(TableMapEventPostDecodeRef(call, r.ev))
             ELSE IF r.outcome = "event" /\ r.ev.kind = "Rows" /\ r.ev.TableID \in DOMAIN call.refs
             THEN \E keep \in BOOLEAN : call' = IF keep THEN collect(hold(call, r.ev)) ELSE call
             ELSE call' = call

BindingInit == InitProgram /\ call = NoHold

\* announcements of tables 1 and 2, table 1 in two ways, and rows of both
BindingPayloads ==
    TableMapPayloads
    \cup {WriteOneRow, Event(WriteRowsEventType, RowsBody(WriteRowsEventType, 2, 2, <<3>>, RowImage)),
          Event(DeleteRowsEventType, RowsBody(DeleteRowsEventType, 1, 2, <<2>>, <<1, 0, 7, 0>>))}

BindingNext == \E data \in BindingPayloads : DecodeHolding(data)

BindingSpec == BindingInit /\ [][BindingNext]_vars

\* dec.tables as values is dec.tables as pointers, dereferenced
RefsAgree ==
    /\ DOMAIN call.refs = DOMAIN tables
    /\ \A id \in DOMAIN tables : call.heap[call.refs[id]] = tables[id]

\* C29: a rows event the caller holds keeps the table it was decoded with: its
\* Table field (never assigned after RowsEvent.Decode) points to an object that
\* has, whatever was decoded since, the fields it had when the event was decoded.
C29_BindingKept ==
    (call.fn = "hold" /\ call.held # Nil) =>
        /\ call.held.ev.Table = call.held.table
        /\ call.heap[call.held.ref] = call.held.table

\* the table of the held rows event has since been announced again, differently
C29_Witness ==
    /\ call.fn = "hold" /\ call.held # Nil
    /\ Returned("TableMap")
    /\ last.ev.TableID = call.held.ev.TableID
    /\ last.ev.ColumnTypes # call.held.table.ColumnTypes
    /\ call.refs[last.ev.TableID] # call.held.ref

(***************************************************************************)
(* The payload after a call                                                *)
(***************************************************************************)
\* C30: decode does not write to the payload: after a call every byte of the
\* payload has the value it had before.
C30_PayloadUnchanged == last.outcome # "none" => last.after = last.payload

====
